---- MODULE Spec2Model ----
(***************************************************************************)
(* Keyword merge and SEO scoring of the stock-photo metadata pipeline.     *)
(*                                                                         *)
(* A Python str is modelled as a sequence of one-character strings, so     *)
(* that str.strip, str.lower and len are computed on the characters.       *)
(* A Python float score is modelled as an integer number of thousandths.   *)
(***************************************************************************)
EXTENDS Integers, Sequences, FiniteSets, TLC

VARIABLES
    meta,       \* the stockmate_pro.Meta instance (a record of its fields)
    smeta,      \* the stockmate.Meta built from the same title/description/keywords
    call,       \* the last merged_keywords call: implementation, arguments, result
    analysis,   \* the ImageAnalysis handed to the SEO scorer
    pc,         \* position of the running function ("idle" when none runs)
    locals      \* the arguments and local variables of the running function

vars == <<meta, smeta, call, analysis, pc, locals>>

----------------------------------------------------------------------------
(* Python str primitives *)

UpperCase ==
    <<"A","B","C","D","E","F","G","H","I","J","K","L","M",
      "N","O","P","Q","R","S","T","U","V","W","X","Y","Z">>

LowerCase ==
    <<"a","b","c","d","e","f","g","h","i","j","k","l","m",
      "n","o","p","q","r","s","t","u","v","w","x","y","z">>

Whitespace == {" ", "\t", "\n", "\r"}

\* str.lower on one character: the ASCII upper-case letters map to their
\* lower-case letters, every other character is unchanged.
ToLower ==
    [c \in {UpperCase[i] : i \in DOMAIN UpperCase} |->
        LowerCase[CHOOSE i \in DOMAIN UpperCase : UpperCase[i] = c]]

LowerChar(c) == IF c \in DOMAIN ToLower THEN ToLower[c] ELSE c

lower(s) ==
    IF s = <<>> THEN <<>> ELSE [i \in 1..Len(s) |-> LowerChar(s[i])]

RECURSIVE lstrip(_)
lstrip(s) ==
    IF s # <<>> /\ Head(s) \in Whitespace THEN lstrip(Tail(s)) ELSE s

RECURSIVE rstrip(_)
rstrip(s) ==
    IF s # <<>> /\ s[Len(s)] \in Whitespace
    THEN rstrip(SubSeq(s, 1, Len(s) - 1))
    ELSE s

strip(s) == rstrip(lstrip(s))

\* Python slice seq[:n] for n >= 0
Take(seq, n) == SubSeq(seq, 1, IF n < Len(seq) THEN n ELSE Len(seq))

----------------------------------------------------------------------------
(* stockmate_pro.Meta: merged_keywords and _dedupe_and_optimize *)

MIN_KEYWORD_LENGTH == 3
MAX_KEYWORD_LENGTH == 30
TOP_MAIN_KEYWORDS == 10
DEFAULT_MAX_KEYWORDS == 50

\* Variant of the candidate filter without the upper length bound.
Skipped_NoUpperBound(kw) ==
    kw = <<>> \/ Len(kw) < MIN_KEYWORD_LENGTH

\* The candidate filter of the scan loop: the stripped keyword is kept for
\* the seen-test only when it is non-empty and within the length bounds.
Skipped(kw) ==
    kw = <<>> \/ Len(kw) < MIN_KEYWORD_LENGTH \/ Len(kw) > MAX_KEYWORD_LENGTH

\* Variant of the inner loop without the "if kw_lower in seen" test.
RECURSIVE ScanKeywordList_NoSeenTest(_, _, _)
ScanKeywordList_NoSeenTest(keyword_list, acc, max_keywords) ==
    IF acc.returned \/ keyword_list = <<>> THEN acc
    ELSE LET kw == strip(Head(keyword_list))
             rest == Tail(keyword_list)
         IN  IF Skipped(kw)
             THEN ScanKeywordList_NoSeenTest(rest, acc, max_keywords)
             ELSE LET optimized == Append(acc.optimized, kw)
                  IN  ScanKeywordList_NoSeenTest(rest,
                         [seen |-> acc.seen \cup {lower(kw)},
                          optimized |-> optimized,
                          returned |-> Len(optimized) >= max_keywords],
                         max_keywords)

\* Variant of the inner loop that appends kw_lower instead of kw.
RECURSIVE ScanKeywordList_AppendLower(_, _, _)
ScanKeywordList_AppendLower(keyword_list, acc, max_keywords) ==
    IF acc.returned \/ keyword_list = <<>> THEN acc
    ELSE LET kw == strip(Head(keyword_list))
             rest == Tail(keyword_list)
         IN  IF Skipped(kw) \/ lower(kw) \in acc.seen
             THEN ScanKeywordList_AppendLower(rest, acc, max_keywords)
             ELSE LET optimized == Append(acc.optimized, lower(kw))
                  IN  ScanKeywordList_AppendLower(rest,
                         [seen |-> acc.seen \cup {lower(kw)},
                          optimized |-> optimized,
                          returned |-> Len(optimized) >= max_keywords],
                         max_keywords)

\* The inner loop "for kw in keyword_list".  acc carries the locals seen and
\* optimized, and returned = TRUE once "return optimized" was executed.
RECURSIVE ScanKeywordList(_, _, _)
ScanKeywordList(keyword_list, acc, max_keywords) ==
    IF acc.returned \/ keyword_list = <<>> THEN acc
    ELSE LET kw == strip(Head(keyword_list))
             rest == Tail(keyword_list)
         IN  IF Skipped(kw) THEN ScanKeywordList(rest, acc, max_keywords)
             ELSE IF lower(kw) \in acc.seen
                  THEN ScanKeywordList(rest, acc, max_keywords)
             ELSE LET optimized == Append(acc.optimized, kw)
                  IN  ScanKeywordList(rest,
                         [seen |-> acc.seen \cup {lower(kw)},
                          optimized |-> optimized,
                          returned |-> Len(optimized) >= max_keywords],
                         max_keywords)

\* The outer loop "for keyword_list in priority_lists".
RECURSIVE ScanPriorityLists(_, _, _)
ScanPriorityLists(lists, acc, max_keywords) ==
    IF acc.returned \/ lists = <<>> THEN acc
    ELSE ScanPriorityLists(Tail(lists),
                           ScanKeywordList(Head(lists), acc, max_keywords),
                           max_keywords)

\* Variant with the main keywords ahead of the trending keywords.
priority_lists_MainFirst(self) ==
    << Take(self.keywords_en, TOP_MAIN_KEYWORDS),
       self.trending_keywords,
       self.mood_tags \o self.style_tags,
       self.color_tags,
       self.technical_tags >>

priority_lists(self) ==
    << self.trending_keywords,
       Take(self.keywords_en, TOP_MAIN_KEYWORDS),
       self.mood_tags \o self.style_tags,
       self.color_tags,
       self.technical_tags >>

\* Variant that scans every pool and then keeps the last max_keywords
\* accepted keywords (optimized[-max_keywords:]).
_dedupe_and_optimize_KeepLast(self, keywords, max_keywords) ==
    LET all == ScanPriorityLists(priority_lists(self),
                   [seen |-> {}, optimized |-> <<>>, returned |-> FALSE],
                   Len(priority_lists(self)[1]) + Len(priority_lists(self)[2])
                   + Len(priority_lists(self)[3]) + Len(priority_lists(self)[4])
                   + Len(priority_lists(self)[5]) + 1).optimized
        n == IF max_keywords < 1 THEN 1 ELSE max_keywords
    IN  IF Len(all) <= n THEN all
        ELSE SubSeq(all, Len(all) - n + 1, Len(all))

\* The parameter keywords is never read by the method body.
_dedupe_and_optimize(self, keywords, max_keywords) ==
    ScanPriorityLists(priority_lists(self),
                      [seen |-> {}, optimized |-> <<>>, returned |-> FALSE],
                      max_keywords).optimized

all_keywords(self, lang_pref) ==
    IF lang_pref = "en"
    THEN self.keywords_en \o self.trending_keywords \o self.mood_tags
         \o self.style_tags \o self.color_tags
    ELSE IF lang_pref = "zh"
    THEN self.keywords_zh
    ELSE self.keywords_en \o self.trending_keywords \o self.keywords_zh
         \o self.mood_tags \o self.style_tags \o self.color_tags

merged_keywords(self, lang_pref, max_keywords) ==
    _dedupe_and_optimize(self, all_keywords(self, lang_pref), max_keywords)

\* Variant in which the call stores the stripped main keywords back.
MetaAfterMergedKeywords_StoresBack(self) ==
    [self EXCEPT !.keywords_en =
        [i \in 1..Len(self.keywords_en) |-> strip(self.keywords_en[i])]]

\* merged_keywords assigns no attribute of self: the Meta after the call.
MetaAfterMergedKeywords(self) == self

----------------------------------------------------------------------------
(* stockmate.Meta: merged_keywords and _dedupe *)

\* The loop of _dedupe over items, with its locals seen and out.
RECURSIVE DedupeLoop(_, _, _)
DedupeLoop(items, seen, out) ==
    IF items = <<>> THEN out
    ELSE LET k == strip(Head(items))
         IN  IF k = <<>> THEN DedupeLoop(Tail(items), seen, out)
             ELSE IF lower(k) \in seen THEN DedupeLoop(Tail(items), seen, out)
             ELSE DedupeLoop(Tail(items), seen \cup {lower(k)}, Append(out, k))

_dedupe(items) == DedupeLoop(items, {}, <<>>)

\* Variant whose bilingual branch puts the Chinese keywords first.
stockmate_merged_keywords_ZhFirst(self, lang_pref) ==
    IF lang_pref = "en" THEN _dedupe(self.keywords_en)
    ELSE IF lang_pref = "zh" THEN _dedupe(self.keywords_zh)
    ELSE _dedupe(self.keywords_zh \o self.keywords_en)

stockmate_merged_keywords(self, lang_pref) ==
    IF lang_pref = "en" THEN _dedupe(self.keywords_en)
    ELSE IF lang_pref = "zh" THEN _dedupe(self.keywords_zh)
    ELSE _dedupe(self.keywords_en \o self.keywords_zh)

\* stockmate.Meta.merged_keywords assigns no attribute of self either.
StockmateMetaAfterMergedKeywords(self) == self

----------------------------------------------------------------------------
(* EnhancedAIGenerator._calculate_seo_score                                *)
(* technical_quality is in thousandths, a score in millionths: 0.2 is      *)
(* 200000 and technical_quality * 0.2 is technical_quality * 200.          *)

\* Variant that adds technical_quality without the 0.2 weight.
_calculate_seo_score_Unweighted(m, a) ==
    LET total_keywords == Len(merged_keywords(m, "en,zh", DEFAULT_MAX_KEYWORDS))
        s1 == IF Len(m.title) >= 30 /\ Len(m.title) <= 60 THEN 200000 ELSE 0
        s2 == s1 + (IF Len(m.description) >= 100 /\ Len(m.description) <= 200
                    THEN 200000 ELSE 0)
        s3 == s2 + (IF total_keywords >= 20 /\ total_keywords <= 50
                    THEN 200000 ELSE 0)
        s4 == s3 + (IF m.trending_keywords # <<>> THEN 200000 ELSE 0)
        s5 == s4 + a.technical_quality * 1000
    IN  IF s5 < 1000000 THEN s5 ELSE 1000000

_calculate_seo_score(m, a) ==
    LET total_keywords == Len(merged_keywords(m, "en,zh", DEFAULT_MAX_KEYWORDS))
        s1 == IF Len(m.title) >= 30 /\ Len(m.title) <= 60 THEN 200000 ELSE 0
        s2 == s1 + (IF Len(m.description) >= 100 /\ Len(m.description) <= 200
                    THEN 200000 ELSE 0)
        s3 == s2 + (IF total_keywords >= 20 /\ total_keywords <= 50
                    THEN 200000 ELSE 0)
        s4 == s3 + (IF m.trending_keywords # <<>> THEN 200000 ELSE 0)
        s5 == s4 + a.technical_quality * 200
    IN  IF s5 < 1000000 THEN s5 ELSE 1000000

----------------------------------------------------------------------------
(* The Meta dataclasses *)

\* stockmate_pro.Meta(title, description, keywords_en, keywords_zh) with the
\* dataclass defaults of the remaining fields.
Meta(title, description, keywords_en, keywords_zh) ==
    [title |-> title,
     description |-> description,
     keywords_en |-> keywords_en,
     keywords_zh |-> keywords_zh,
     category |-> <<>>,
     subcategory |-> <<>>,
     mood_tags |-> <<>>,
     style_tags |-> <<>>,
     color_tags |-> <<>>,
     technical_tags |-> <<>>,
     trending_keywords |-> <<>>,
     seo_score |-> 0,
     market_potential |-> "Medium"]

\* stockmate.Meta(title, description, keywords_en, keywords_zh)
StockmateMeta(title, description, keywords_en, keywords_zh) ==
    [title |-> title,
     description |-> description,
     keywords_en |-> keywords_en,
     keywords_zh |-> keywords_zh]

\* The record analyze_image returns when the image cannot be decoded.
\* brightness, contrast and technical_quality are in thousandths.
UnknownAnalysis ==
    [dominant_colors |-> << <<"u","n","k","n","o","w","n">> >>,
     brightness |-> 500,
     contrast |-> 500,
     composition |-> <<"u","n","k","n","o","w","n">>,
     style |-> <<"u","n","k","n","o","w","n">>,
     mood |-> <<"n","e","u","t","r","a","l">>,
     scene_type |-> <<"u","n","k","n","o","w","n">>,
     technical_quality |-> 500]

----------------------------------------------------------------------------
(* Inputs *)

MaxItems == 2      \* keywords placed freely into the pools of one Meta
MaxKw == 1         \* max_keywords values 0..MaxKw are tried besides the default

Rep(c, n) == [i \in 1..n |-> c]

Tree == <<"T","r","e","e">>
LowTree == <<"t","r","e","e">>
Forest == <<"F","o","r","e","s","t">>
PadForest == <<" ","f","o","r","e","s","t"," ">>
Ab == <<"a","b">>
Blank == <<" "," ">>
Long31 == Rep("x", MAX_KEYWORD_LENGTH + 1)

\* The keywords each pool may receive: <<pool, keyword>> pairs.
Slots ==
    ({"trending_keywords"} \X {LowTree, Forest})
    \cup ({"keywords_en"} \X {Tree, PadForest, Ab, Blank, Long31})
    \cup ({"keywords_zh"} \X {LowTree, Ab})
    \cup {<<"mood_tags", Tree>>, <<"style_tags", Forest>>,
          <<"color_tags", LowTree>>, <<"technical_tags", PadForest>>}

Placements == UNION {[1..k -> Slots] : k \in 0..MaxItems}

RECURSIVE PlacedIn(_, _)
PlacedIn(pl, pool) ==
    IF pl = <<>> THEN <<>>
    ELSE (IF Head(pl)[1] = pool THEN <<Head(pl)[2]>> ELSE <<>>)
         \o PlacedIn(Tail(pl), pool)

\* k distinct acceptable keywords <tag>aa, <tag>ab, ..., <tag>ba, ...
Filler(tag, k) ==
    [i \in 1..k |-> <<tag, LowerCase[((i - 1) \div 26) + 1],
                            LowerCase[((i - 1) % 26) + 1]>>]

EnFillChoices == {0, TOP_MAIN_KEYWORDS - 1}

LangPrefs == {"en", "zh", "en,zh", "fr"}

MaxKeywordsChoices == (0..MaxKw) \cup {DEFAULT_MAX_KEYWORDS}

TitleT == <<"t">>
DescriptionD == <<"d">>

PlacedMeta(pl, fill) ==
    [Meta(TitleT, DescriptionD,
          Filler("k", fill) \o PlacedIn(pl, "keywords_en"),
          PlacedIn(pl, "keywords_zh"))
     EXCEPT !.trending_keywords = PlacedIn(pl, "trending_keywords"),
            !.mood_tags = PlacedIn(pl, "mood_tags"),
            !.style_tags = PlacedIn(pl, "style_tags"),
            !.color_tags = PlacedIn(pl, "color_tags"),
            !.technical_tags = PlacedIn(pl, "technical_tags")]

NoCall == [impl |-> "none", args |-> <<>>, result |-> <<>>]

----------------------------------------------------------------------------
(* Specification of the keyword merge: a Meta is constructed, then         *)
(* merged_keywords is called on it any number of times.                    *)

Init ==
    \E pl \in Placements, fill \in EnFillChoices :
        /\ meta = PlacedMeta(pl, fill)
        /\ smeta = StockmateMeta(meta.title, meta.description,
                                 meta.keywords_en, meta.keywords_zh)
        /\ call = NoCall
        /\ analysis = UnknownAnalysis
        /\ pc = "idle"
        /\ locals = <<>>

ProMergedKeywords(lang_pref, max_keywords) ==
    /\ call' = [impl |-> "stockmate_pro",
                args |-> <<lang_pref, max_keywords>>,
                result |-> merged_keywords(meta, lang_pref, max_keywords)]
    /\ meta' = MetaAfterMergedKeywords(meta)
    /\ UNCHANGED <<smeta, analysis, pc, locals>>

StockmateMergedKeywords(lang_pref) ==
    /\ call' = [impl |-> "stockmate",
                args |-> <<lang_pref>>,
                result |-> stockmate_merged_keywords(smeta, lang_pref)]
    /\ smeta' = StockmateMetaAfterMergedKeywords(smeta)
    /\ UNCHANGED <<meta, analysis, pc, locals>>

Next ==
    \/ \E lang_pref \in LangPrefs, max_keywords \in MaxKeywordsChoices :
           ProMergedKeywords(lang_pref, max_keywords)
    \/ \E lang_pref \in LangPrefs : StockmateMergedKeywords(lang_pref)

Spec == Init /\ [][Next]_vars

----------------------------------------------------------------------------
(* Reference notions used to state the properties *)

IsPro == call.impl = "stockmate_pro"
IsStockmate == call.impl = "stockmate"

IsPrefix(a, b) == Len(a) <= Len(b) /\ SubSeq(b, 1, Len(a)) = a

\* Indices of seq in increasing order, as a sequence of the elements there.
RECURSIVE AtIndices(_, _)
AtIndices(seq, idx) ==
    IF idx = {} THEN <<>>
    ELSE LET i == CHOOSE x \in idx : \A y \in idx : x <= y
         IN  <<seq[i]>> \o AtIndices(seq, idx \ {i})

Stripped(seq) == [i \in 1..Len(seq) |-> strip(seq[i])]

\* The normalized key under which keywords are compared.
Key(kw) == lower(strip(kw))

Acceptable(kw) ==
    kw # <<>> /\ Len(kw) >= MIN_KEYWORD_LENGTH /\ Len(kw) <= MAX_KEYWORD_LENGTH

FirstOccurrence(seq, i) == \A j \in 1..(i - 1) : Key(seq[j]) # Key(seq[i])

\* stockmate_pro: positions of the scan whose keyword is accepted.
AcceptedIdx(seq) ==
    {i \in 1..Len(seq) : Acceptable(strip(seq[i])) /\ FirstOccurrence(seq, i)}

Accepted(seq) == AtIndices(Stripped(seq), AcceptedIdx(seq))

\* stockmate: positions kept by the plain order-preserving dedupe.
DedupedIdx(seq) ==
    {i \in 1..Len(seq) : strip(seq[i]) # <<>> /\ FirstOccurrence(seq, i)}

Deduped(seq) == AtIndices(Stripped(seq), DedupedIdx(seq))

\* The pools in the documented priority order, as one sequence.
PriorityConcat(m) ==
    m.trending_keywords \o Take(m.keywords_en, TOP_MAIN_KEYWORDS)
    \o m.mood_tags \o m.style_tags \o m.color_tags \o m.technical_tags

NoCaseDuplicates(seq) ==
    \A i, j \in 1..Len(seq) : i # j => lower(seq[i]) # lower(seq[j])

----------------------------------------------------------------------------
(* C1: the list returned by merged_keywords, in stockmate_pro.py and in    *)
(* stockmate.py, never holds two entries that are equal after lower-casing. *)
C1_NoNormalizedDuplicate ==
    call.impl # "none" => NoCaseDuplicates(call.result)

\* A call whose scanned pools held the same keyword in two casings and that
\* returned several keywords.
C1_Witness ==
    /\ IsPro
    /\ Len(call.result) >= 2
    /\ \E i, j \in 1..Len(PriorityConcat(meta)) :
           /\ i < j
           /\ PriorityConcat(meta)[i] # PriorityConcat(meta)[j]
           /\ Key(PriorityConcat(meta)[i]) = Key(PriorityConcat(meta)[j])
           /\ \E k \in 1..Len(call.result) :
                  lower(call.result[k]) = Key(PriorityConcat(meta)[i])

(* C2: for every max_count N, N = 0 included, stockmate_pro merged_keywords *)
(* returns at most N keywords.                                              *)
C2_LengthCap ==
    IsPro => Len(call.result) <= call.args[2]

(* C3: stockmate_pro merged_keywords returns the accepted (filtered,        *)
(* first-occurrence) candidates of trending_keywords, the first 10 of       *)
(* keywords_en, mood_tags + style_tags, color_tags, technical_tags in that  *)
(* concatenation order; a keyword of both the trending and the primary pool *)
(* stands at its trending position.                                         *)
C3_PriorityOrder ==
    IsPro =>
        /\ IsPrefix(call.result, Accepted(PriorityConcat(meta)))
        /\ Len(call.result) < call.args[2]
               => call.result = Accepted(PriorityConcat(meta))

\* The first trending keyword is also a primary keyword, it is returned
\* first, and primary keywords follow it.
C3_Witness ==
    /\ IsPro
    /\ Len(call.result) >= 2
    /\ meta.trending_keywords # <<>>
    /\ call.result[1] = strip(meta.trending_keywords[1])
    /\ \E i \in 1..Len(meta.keywords_en) :
           /\ i <= TOP_MAIN_KEYWORDS
           /\ Key(meta.keywords_en[i]) = Key(meta.trending_keywords[1])
    /\ \E i \in 1..Len(meta.keywords_en) :
           call.result[2] = strip(meta.keywords_en[i])

\* The candidates stockmate.Meta.merged_keywords hands to _dedupe.
StockmateScan(m, lang_pref) ==
    IF lang_pref = "en" THEN m.keywords_en
    ELSE IF lang_pref = "zh" THEN m.keywords_zh
    ELSE m.keywords_en \o m.keywords_zh

\* The candidates the last call scanned, in scan order.
Scanned ==
    IF IsPro THEN PriorityConcat(meta) ELSE StockmateScan(smeta, call.args[1])

\* Pairs of scan positions whose keywords differ only in letter case.
CaseVariantPairs(S) ==
    {p \in (1..Len(S)) \X (1..Len(S)) :
        p[1] < p[2] /\ S[p[1]] # S[p[2]] /\ lower(S[p[1]]) = lower(S[p[2]])}

FirstIdx(S, key) ==
    CHOOSE f \in 1..Len(S) :
        Key(S[f]) = key /\ \A g \in 1..(f - 1) : Key(S[g]) # key

KeptAt(result, key) == {k \in 1..Len(result) : lower(result[k]) = key}

(* C4 as stated: whenever two keywords differing only in letter case occur *)
(* among the scanned candidates, exactly one of them is kept, the one met   *)
(* first, in its original casing.                                           *)
C4_ExactlyOneKept ==
    call.impl # "none" =>
        \A p \in CaseVariantPairs(Scanned) :
            LET key == Key(Scanned[p[1]])
                kept == KeptAt(call.result, key)
            IN  /\ Cardinality(kept) = 1
                /\ \A k \in kept :
                       call.result[k] = strip(Scanned[FirstIdx(Scanned, key)])

(* C4 amended: of two scanned keywords differing only in letter case at    *)
(* most one entry is kept, and a kept entry is the occurrence met first in  *)
(* scan order with its casing unchanged; exactly one is kept by stockmate,  *)
(* and by stockmate_pro when that first occurrence passes the length filter *)
(* and fewer than max_keywords keywords were accepted before it.            *)
C4_FirstCasingKept ==
    call.impl # "none" =>
        \A p \in CaseVariantPairs(Scanned) :
            LET key == Key(Scanned[p[1]])
                f == FirstIdx(Scanned, key)
                kept == KeptAt(call.result, key)
            IN  /\ Cardinality(kept) <= 1
                /\ \A k \in kept : call.result[k] = strip(Scanned[f])
                /\ IsStockmate => Cardinality(kept) = 1
                /\ ( /\ IsPro
                     /\ Acceptable(strip(Scanned[f]))
                     /\ Cardinality(AcceptedIdx(Scanned) \cap (1..(f - 1)))
                            < call.args[2] )
                       => Cardinality(kept) = 1

\* "Tree" is scanned before "tree": "Tree" is returned, "tree" is not.
C4_Witness ==
    /\ IsPro
    /\ \E p \in CaseVariantPairs(Scanned) :
           /\ Scanned[p[1]] = Tree
           /\ Scanned[p[2]] = LowTree
           /\ FirstIdx(Scanned, LowTree) = p[1]
    /\ \E k \in 1..Len(call.result) : call.result[k] = Tree
    /\ Len(call.result) >= 2

(* C5: with the language preference "zh", stockmate_pro merged_keywords    *)
(* returns only keywords taken from keywords_zh.                            *)
C5_SecondaryOnly ==
    (IsPro /\ call.args[1] = "zh") =>
        \A k \in 1..Len(call.result) :
            \E i \in 1..Len(meta.keywords_zh) :
                strip(meta.keywords_zh[i]) = call.result[k]

(* C6: with the language preference "en,zh" and max_keywords not reached,  *)
(* stockmate_pro merged_keywords holds every acceptable, not yet seen       *)
(* keyword of keywords_zh, after the keywords of all other pools.           *)
C6_SecondaryAppended ==
    ( /\ IsPro
      /\ call.args[1] = "en,zh"
      /\ Len(Accepted(PriorityConcat(meta) \o meta.keywords_zh))
             <= call.args[2] )
        => call.result = Accepted(PriorityConcat(meta) \o meta.keywords_zh)

(* C7: stockmate.py merged_keywords selects the pools by language: "en"    *)
(* gives the dedupe of keywords_en, "zh" that of keywords_zh, "en,zh" that  *)
(* of keywords_en followed by keywords_zh, every English keyword ahead of   *)
(* every Chinese one.                                                       *)
C7_PoolsByLanguage ==
    IsStockmate =>
        LET en == smeta.keywords_en
            zh == smeta.keywords_zh
            n == Len(Deduped(en))
        IN  /\ call.args[1] = "en" => call.result = Deduped(en)
            /\ call.args[1] = "zh" => call.result = Deduped(zh)
            /\ call.args[1] = "en,zh" =>
                   /\ call.result = Deduped(en \o zh)
                   /\ SubSeq(call.result, 1, n) = Deduped(en)
                   /\ \A k \in (n + 1)..Len(call.result) :
                          /\ \E i \in 1..Len(zh) : strip(zh[i]) = call.result[k]
                          /\ \A i \in 1..Len(en) :
                                 Key(en[i]) # lower(call.result[k])

\* A bilingual call that returned an English keyword and then a Chinese one.
C7_Witness ==
    /\ IsStockmate
    /\ call.args[1] = "en,zh"
    /\ Len(call.result) >= 2
    /\ Len(Deduped(smeta.keywords_en)) = 1
    /\ call.result[1] = strip(smeta.keywords_en[1])
    /\ \E i \in 1..Len(smeta.keywords_zh) :
           call.result[2] = strip(smeta.keywords_zh[i])

C9_StablePrefix ==
    IsPro =>
        \A n \in MaxKeywordsChoices :
            n <= call.args[2] =>
                IsPrefix(merged_keywords(meta, call.args[1], n), call.result)

\* A call with the default max_keywords that returned more keywords than
\* the same call with max_keywords = 1 returns.
C9_Witness ==
    /\ IsPro
    /\ call.args[2] = DEFAULT_MAX_KEYWORDS
    /\ Len(call.result) > TOP_MAIN_KEYWORDS
    /\ Len(merged_keywords(meta, call.args[1], 1)) = 1

----------------------------------------------------------------------------
(* Specification of the SEO scorer: a Meta and an ImageAnalysis are given, *)
(* and _calculate_seo_score is applied and its result stored in seo_score,  *)
(* as _enhance_with_seo does.                                               *)

TitleLengths == {29, 30, 60, 61}
DescriptionLengths == {99, 100, 200, 201}
TechnicalQualities == {0, 400, 500, 600, 800, 1000}
SeoTrendingChoices == {<<>>, Filler("t", 10), Filler("t", 45)}
SeoMainChoices == {Filler("k", k) : k \in {0, 9, 10}}
SeoMoodChoices == {<<>>, <<Tree>>}

InitSeo ==
    \E tl \in TitleLengths, dl \in DescriptionLengths,
       tr \in SeoTrendingChoices, en \in SeoMainChoices,
       mood \in SeoMoodChoices,
       tq \in TechnicalQualities :
        /\ meta = [Meta(Rep("x", tl), Rep("y", dl), en, <<LowTree>>)
                   EXCEPT !.trending_keywords = tr,
                          !.mood_tags = mood]
        /\ smeta = StockmateMeta(meta.title, meta.description,
                                 meta.keywords_en, meta.keywords_zh)
        /\ call = NoCall
        /\ analysis = [UnknownAnalysis EXCEPT !.technical_quality = tq]
        /\ pc = "idle"
        /\ locals = <<>>

CalculateSeoScore ==
    /\ call' = [impl |-> "_calculate_seo_score",
                args |-> <<>>,
                result |-> _calculate_seo_score(meta, analysis)]
    /\ meta' = [meta EXCEPT !.seo_score = _calculate_seo_score(meta, analysis)]
    /\ UNCHANGED <<smeta, analysis, pc, locals>>

NextSeo == CalculateSeoScore

SpecSeo == InitSeo /\ [][NextSeo]_vars

Scored == call.impl = "_calculate_seo_score"

InRange(x, lo, hi) == x >= lo /\ x <= hi

\* The five components of the score, each worth 0 or at most 0.2.
TitleComponent == IF InRange(Len(meta.title), 30, 60) THEN 200000 ELSE 0

DescriptionComponent ==
    IF InRange(Len(meta.description), 100, 200) THEN 200000 ELSE 0

MergedCount ==
    Len(Take(Accepted(PriorityConcat(meta)), DEFAULT_MAX_KEYWORDS))

KeywordComponent == IF InRange(MergedCount, 20, 50) THEN 200000 ELSE 0

TrendingComponent == IF Len(meta.trending_keywords) > 0 THEN 200000 ELSE 0

QualityComponent == analysis.technical_quality * 200

ComponentSum ==
    TitleComponent + DescriptionComponent + KeywordComponent
    + TrendingComponent + QualityComponent

(* C10: for technical_quality in [0,1] the seo_score lies in [0.0, 1.0] and *)
(* is the sum, clamped to 1.0, of five components worth at most 0.2 each:   *)
(* title length in [30,60], description length in [100,200], merged keyword *)
(* count in [20,50], non-empty trending_keywords, technical_quality * 0.2.  *)
C10_SeoScoreBounds ==
    (Scored /\ InRange(analysis.technical_quality, 0, 1000)) =>
        /\ InRange(meta.seo_score, 0, 1000000)
        /\ InRange(QualityComponent, 0, 200000)
        /\ meta.seo_score =
               (IF ComponentSum < 1000000 THEN ComponentSum ELSE 1000000)

\* A scored Meta with exactly 20 merged keywords, for which the keyword
\* count, the trending keywords and the quality contribute: 0.2 + 0.2 + 0.16.
C10_Witness ==
    /\ Scored
    /\ MergedCount = 20
    /\ TitleComponent = 0
    /\ DescriptionComponent = 0
    /\ meta.trending_keywords # <<>>
    /\ analysis.technical_quality = 800
    /\ meta.seo_score = 560000

----------------------------------------------------------------------------
(* Market potential: _assess_market_potential reads the stored seo_score   *)
(* (millionths) and the technical quality (thousandths).                   *)

_assess_market_potential_ScoreOnly(m, a) ==
    IF m.seo_score >= 800000 THEN "High"
    ELSE IF m.seo_score >= 600000 THEN "Medium"
    ELSE "Low"

_assess_market_potential(m, a) ==
    IF m.seo_score >= 800000 /\ a.technical_quality >= 800 THEN "High"
    ELSE IF m.seo_score >= 600000 /\ a.technical_quality >= 600 THEN "Medium"
    ELSE "Low"

\* The scorer followed by the assessment, on the Metas of InitSeo.
AssessMarketPotential ==
    /\ call.impl = "_calculate_seo_score"
    /\ call' = [impl |-> "_assess_market_potential",
                args |-> <<>>,
                result |-> _assess_market_potential(meta, analysis)]
    /\ meta' = [meta EXCEPT
                  !.market_potential = _assess_market_potential(meta, analysis)]
    /\ UNCHANGED <<smeta, analysis, pc, locals>>

NextPotential ==
    \/ CalculateSeoScore
    \/ AssessMarketPotential

SpecPotential == InitSeo /\ [][NextPotential]_vars

Assessed == call.impl = "_assess_market_potential"

\* C11: the assessed market potential is High exactly when the stored score
\* is at least 0.8 and the technical quality at least 0.8, Medium exactly
\* when it is not High and both are at least 0.6, and Low in every other
\* case.
C11_MarketPotential ==
    Assessed =>
        LET high == meta.seo_score >= 800000
                    /\ analysis.technical_quality >= 800
            medium == ~high /\ meta.seo_score >= 600000
                      /\ analysis.technical_quality >= 600
        IN  /\ call.result \in {"High", "Medium", "Low"}
            /\ (call.result = "High") <=> high
            /\ (call.result = "Medium") <=> medium
            /\ (call.result = "Low") <=> (~high /\ ~medium)
            /\ meta.market_potential = call.result

\* A score of at least 0.8 with a technical quality below 0.6 was assessed.
C11_Witness ==
    /\ Assessed
    /\ meta.seo_score >= 800000
    /\ analysis.technical_quality < 600
    /\ call.result = "Low"

----------------------------------------------------------------------------
(* config.py: platform constraints and trending keywords *)

\* The limits of PLATFORM_CONFIGS, keyed by platform identifier.
PLATFORM_CONFIGS ==
    (<<"s","h","u","t","t","e","r","s","t","o","c","k">> :> [max_keywords |-> 50, max_title_length |-> 200,
                        max_description_length |-> 1000])
    @@ (<<"a","d","o","b","e","_","s","t","o","c","k">> :> [max_keywords |-> 49, max_title_length |-> 200,
                          max_description_length |-> 1000])
    @@ (<<"g","e","t","t","y","_","i","m","a","g","e","s">> :> [max_keywords |-> 50, max_title_length |-> 150,
                           max_description_length |-> 800])

\* PLATFORM_CONFIGS.get(platform.lower(), PLATFORM_CONFIGS["shutterstock"])
get_platform_config(platform) ==
    IF lower(platform) \in DOMAIN PLATFORM_CONFIGS
    THEN PLATFORM_CONFIGS[lower(platform)]
    ELSE PLATFORM_CONFIGS[<<"s","h","u","t","t","e","r","s","t","o","c","k">>]

\* TRENDING_KEYWORDS in dict order: business, lifestyle, technology, nature.
TRENDING_KEYWORDS ==
    << <<<<"r","e","m","o","t","e"," ","w","o","r","k">>, <<"d","i","g","i","t","a","l"," ","t","r","a","n","s","f","o","r","m","a","t","i","o","n">>, <<"s","u","s","t","a","i","n","a","b","i","l","i","t","y">>,
         <<"a","r","t","i","f","i","c","i","a","l"," ","i","n","t","e","l","l","i","g","e","n","c","e">>, <<"t","e","a","m","w","o","r","k">>, <<"l","e","a","d","e","r","s","h","i","p">>,
         <<"i","n","n","o","v","a","t","i","o","n">>, <<"s","t","a","r","t","u","p">>, <<"e","n","t","r","e","p","r","e","n","e","u","r">>, <<"m","e","e","t","i","n","g">>>>,
       <<<<"w","e","l","l","n","e","s","s">>, <<"m","i","n","d","f","u","l","n","e","s","s">>, <<"w","o","r","k","-","l","i","f","e"," ","b","a","l","a","n","c","e">>, <<"h","e","a","l","t","h","y"," ","e","a","t","i","n","g">>,
         <<"e","x","e","r","c","i","s","e">>, <<"f","a","m","i","l","y"," ","t","i","m","e">>, <<"s","o","c","i","a","l"," ","m","e","d","i","a">>, <<"m","i","n","i","m","a","l","i","s","m">>,
         <<"e","c","o","-","f","r","i","e","n","d","l","y">>, <<"m","e","n","t","a","l"," ","h","e","a","l","t","h">>>>,
       <<<<"A","I">>, <<"m","a","c","h","i","n","e"," ","l","e","a","r","n","i","n","g">>, <<"c","l","o","u","d"," ","c","o","m","p","u","t","i","n","g">>, <<"c","y","b","e","r","s","e","c","u","r","i","t","y">>,
         <<"b","l","o","c","k","c","h","a","i","n">>, <<"I","o","T">>, <<"5","G">>, <<"v","i","r","t","u","a","l"," ","r","e","a","l","i","t","y">>, <<"a","u","t","o","m","a","t","i","o","n">>,
         <<"d","i","g","i","t","a","l"," ","n","o","m","a","d">>>>,
       <<<<"c","l","i","m","a","t","e"," ","c","h","a","n","g","e">>, <<"r","e","n","e","w","a","b","l","e"," ","e","n","e","r","g","y">>, <<"b","i","o","d","i","v","e","r","s","i","t","y">>,
         <<"c","o","n","s","e","r","v","a","t","i","o","n">>, <<"s","u","s","t","a","i","n","a","b","l","e"," ","l","i","v","i","n","g">>, <<"o","r","g","a","n","i","c"," ","f","a","r","m","i","n","g">>,
         <<"g","r","e","e","n"," ","t","e","c","h","n","o","l","o","g","y">>, <<"c","a","r","b","o","n"," ","n","e","u","t","r","a","l">>, <<"e","c","o","-","t","o","u","r","i","s","m">>>> >>

----------------------------------------------------------------------------
(* More Python str primitives *)

\* str.split() without argument: the maximal runs of non-whitespace.
RECURSIVE SplitLoop(_, _, _)
SplitLoop(s, word, out) ==
    IF s = <<>> THEN (IF word = <<>> THEN out ELSE Append(out, word))
    ELSE IF Head(s) \in Whitespace
         THEN SplitLoop(Tail(s), <<>>,
                        IF word = <<>> THEN out ELSE Append(out, word))
         ELSE SplitLoop(Tail(s), Append(word, Head(s)), out)

split(s) == SplitLoop(s, <<>>, <<>>)

\* Python "word in s" on strings: word occurs as a contiguous substring.
Contains(word, s) ==
    \E i \in 1..(Len(s) - Len(word) + 1) :
        SubSeq(s, i, i + Len(word) - 1) = word

----------------------------------------------------------------------------
(* ImageAnalyzer *)

\* An image is given by what the analyzer measures on it: whether it can
\* be decoded, the mean red/green/blue (0..255), brightness and contrast in
\* thousandths, and width and height in pixels.
_analyze_colors(img) ==
    LET r == img.rgb[1]
        g == img.rgb[2]
        b == img.rgb[3]
    IN  IF r > 200 /\ g > 200 /\ b > 200 THEN <<<<"w","h","i","t","e">>>>
        ELSE IF r < 50 /\ g < 50 /\ b < 50 THEN <<<<"b","l","a","c","k">>>>
        ELSE IF r > g /\ r > b
             THEN (IF r - g > 50 THEN <<<<"r","e","d">>>>
                   ELSE IF g > b THEN <<<<"o","r","a","n","g","e">>>> ELSE <<<<"p","u","r","p","l","e">>>>)
        ELSE IF g > r /\ g > b THEN <<<<"g","r","e","e","n">>>>
        ELSE IF b > r /\ b > g THEN <<<<"b","l","u","e">>>>
        ELSE <<<<"g","r","a","y">>>>

\* aspect_ratio = width / height, compared without division
_analyze_composition(img) ==
    LET w == img.width
        h == img.height
        d == IF w >= h THEN w - h ELSE h - w
    IN  IF 10 * d < h THEN <<"s","q","u","a","r","e">>
        ELSE IF 2 * w > 3 * h THEN <<"l","a","n","d","s","c","a","p","e">>
        ELSE IF 10 * w < 7 * h THEN <<"p","o","r","t","r","a","i","t">>
        ELSE <<"s","t","a","n","d","a","r","d">>

_determine_style(brightness, contrast) ==
    IF brightness > 800
    THEN (IF contrast < 300 THEN <<"h","i","g","h","-","k","e","y">> ELSE <<"b","r","i","g","h","t">>)
    ELSE IF brightness < 300
         THEN (IF contrast > 500 THEN <<"l","o","w","-","k","e","y">> ELSE <<"d","a","r","k">>)
    ELSE IF contrast > 700 THEN <<"d","r","a","m","a","t","i","c">>
    ELSE <<"n","a","t","u","r","a","l">>

_determine_mood(colors, brightness) ==
    LET warm_colors == {<<"r","e","d">>, <<"o","r","a","n","g","e">>, <<"y","e","l","l","o","w">>, <<"p","i","n","k">>}
        cool_colors == {<<"b","l","u","e">>, <<"g","r","e","e","n">>, <<"p","u","r","p","l","e">>}
    IN  IF \E i \in DOMAIN colors : colors[i] \in warm_colors
        THEN (IF brightness > 500 THEN <<"w","a","r","m">> ELSE <<"c","o","z","y">>)
        ELSE IF \E i \in DOMAIN colors : colors[i] \in cool_colors
             THEN (IF brightness > 500 THEN <<"c","o","o","l">> ELSE <<"m","y","s","t","e","r","i","o","u","s">>)
        ELSE <<"n","e","u","t","r","a","l">>

_determine_scene_type(composition) ==
    IF composition = <<"l","a","n","d","s","c","a","p","e">> THEN <<"o","u","t","d","o","o","r">>
    ELSE IF composition = <<"p","o","r","t","r","a","i","t">> THEN <<"p","e","o","p","l","e">>
    ELSE IF composition = <<"s","q","u","a","r","e">> THEN <<"p","r","o","d","u","c","t">>
    ELSE <<"g","e","n","e","r","a","l">>

\* megapixels = width * height / 1_000_000
_assess_quality(img) ==
    LET pixels == img.width * img.height
    IN  IF pixels >= 12000000 THEN 1000
        ELSE IF pixels >= 6000000 THEN 800
        ELSE IF pixels >= 3000000 THEN 600
        ELSE 400

analyze_image(img) ==
    IF img.decodable
    THEN [dominant_colors |-> _analyze_colors(img),
          brightness |-> img.brightness,
          contrast |-> img.contrast,
          composition |-> _analyze_composition(img),
          style |-> _determine_style(img.brightness, img.contrast),
          mood |-> _determine_mood(_analyze_colors(img), img.brightness),
          scene_type |-> _determine_scene_type(_analyze_composition(img)),
          technical_quality |-> _assess_quality(img)]
    ELSE UnknownAnalysis

----------------------------------------------------------------------------
(* EnhancedAIGenerator: base metadata, fallback and SEO enrichment *)

\* dict.get(key, default) on the mapping _force_json returned
Get(data, key, default) == IF key \in DOMAIN data THEN data[key] ELSE default

\* [s.strip() for s in keywords if s and str(s).strip()]
RECURSIVE CleanKeywords(_)
CleanKeywords(keywords) ==
    IF keywords = <<>> THEN <<>>
    ELSE (IF strip(Head(keywords)) # <<>>
          THEN <<strip(Head(keywords))>> ELSE <<>>)
         \o CleanKeywords(Tail(keywords))

\* The Meta the try-block of _generate_base_metadata constructs from the
\* parsed AI answer.
BaseMetaFromData(data, a, platform_config) ==
    [Meta(Take(strip(Get(data, "title", <<>>)),
               platform_config.max_title_length),
          Take(strip(Get(data, "description", <<>>)),
               platform_config.max_description_length),
          CleanKeywords(Get(data, "keywords_en", <<>>)),
          CleanKeywords(Get(data, "keywords_zh", <<>>)))
     EXCEPT !.category = Get(data, "category", <<>>),
            !.mood_tags = IF a.mood # <<>> THEN split(a.mood) ELSE <<>>,
            !.style_tags = IF a.style # <<>> THEN split(a.style) ELSE <<>>,
            !.color_tags = a.dominant_colors]

IsLetter(c) ==
    \/ \E i \in DOMAIN LowerCase : LowerCase[i] = c
    \/ \E i \in DOMAIN UpperCase : UpperCase[i] = c

UpperChar(c) ==
    IF \E i \in DOMAIN LowerCase : LowerCase[i] = c
    THEN UpperCase[CHOOSE i \in DOMAIN LowerCase : LowerCase[i] = c]
    ELSE c

\* str.title(): a letter is upper-cased after a non-letter (or at the
\* start) and lower-cased after a letter.
str_title(s) ==
    [i \in DOMAIN s |->
        IF i = 1 \/ ~IsLetter(s[i - 1])
        THEN UpperChar(s[i]) ELSE LowerChar(s[i])]

\* re.sub(r"[_\-]+", " ", stem): every run of '_' and '-' becomes one space
RECURSIVE SubSeparators(_, _)
SubSeparators(s, inRun) ==
    IF s = <<>> THEN <<>>
    ELSE IF Head(s) \in {"_", "-"}
         THEN (IF inRun THEN <<>> ELSE <<" ">>)
              \o SubSeparators(Tail(s), TRUE)
         ELSE <<Head(s)>> \o SubSeparators(Tail(s), FALSE)

\* re.split(r"[^a-zA-Z]+", s): the pieces between runs of non-letters (the
\* empty pieces at either end included).
RECURSIVE SplitNonLetters(_, _, _, _)
SplitNonLetters(s, word, inRun, out) ==
    IF s = <<>> THEN Append(out, word)
    ELSE IF IsLetter(Head(s))
         THEN SplitNonLetters(Tail(s), Append(word, Head(s)), FALSE, out)
         ELSE SplitNonLetters(Tail(s), <<>>, TRUE,
                              IF inRun THEN out ELSE Append(out, word))

RECURSIVE LongerThanTwo(_)
LongerThanTwo(words) ==
    IF words = <<>> THEN <<>>
    ELSE (IF Len(Head(words)) > 2 THEN <<Head(words)>> ELSE <<>>)
         \o LongerThanTwo(Tail(words))

RECURSIVE JoinComma(_)
JoinComma(items) ==
    IF items = <<>> THEN <<>>
    ELSE IF Len(items) = 1 THEN items[1]
    ELSE items[1] \o <<","," ">> \o JoinComma(Tail(items))

_fallback_metadata(stem, a, max_kw) ==
    LET t == str_title(strip(SubSeparators(stem, FALSE)))
    IN  [Meta(IF t # <<>> THEN Take(t, 60) ELSE <<"S","t","o","c","k"," ","P","h","o","t","o">>,
              <<"H","i","g","h"," ","q","u","a","l","i","t","y"," ","s","t","o","c","k"," ","p","h","o","t","o"," ","f","e","a","t","u","r","i","n","g"," ">>
                  \o JoinComma(a.dominant_colors) \o <<" ","t","o","n","e","s",".">>,
              Take(LongerThanTwo(
                       SplitNonLetters(lower(stem), <<>>, FALSE, <<>>)),
                   max_kw \div 2),
              <<>>)
         EXCEPT !.color_tags = a.dominant_colors,
                !.mood_tags = IF a.mood # <<"u","n","k","n","o","w","n">> THEN <<a.mood>> ELSE <<>>,
                !.style_tags =
                    IF a.style # <<"u","n","k","n","o","w","n">> THEN <<a.style>> ELSE <<>>]

\* relevance_score > 0: some keyword contains, lower-cased, a word of some
\* trending term of the category.
Relevant(trending_words, keywords) ==
    \E k \in DOMAIN keywords, t \in DOMAIN trending_words :
        \E w \in DOMAIN split(lower(trending_words[t])) :
            Contains(split(lower(trending_words[t]))[w], lower(keywords[k]))

RECURSIVE RelevantTrendingLoop(_, _, _)
RelevantTrendingLoop(categories, keywords, relevant_trending) ==
    IF categories = <<>> THEN relevant_trending
    ELSE RelevantTrendingLoop(
             Tail(categories), keywords,
             IF Relevant(Head(categories), keywords)
             THEN relevant_trending \o Take(Head(categories), 3)
             ELSE relevant_trending)

\* Variant that returns the terms of every relevant category, uncut.
_get_relevant_trending_keywords_Uncut(keywords, a) ==
    RelevantTrendingLoop(TRENDING_KEYWORDS, keywords, <<>>)

_get_relevant_trending_keywords(keywords, a) ==
    Take(RelevantTrendingLoop(TRENDING_KEYWORDS, keywords, <<>>), 5)

_generate_technical_tags(a) ==
    (IF a.technical_quality >= 800 THEN <<<<"h","i","g","h"," ","r","e","s","o","l","u","t","i","o","n">>>> ELSE <<>>)
    \o (IF a.brightness > 700 THEN <<<<"b","r","i","g","h","t"," ","l","i","g","h","t","i","n","g">>>>
        ELSE IF a.brightness < 300 THEN <<<<"l","o","w"," ","l","i","g","h","t">>>> ELSE <<>>)
    \o (IF a.contrast > 700 THEN <<<<"h","i","g","h"," ","c","o","n","t","r","a","s","t">>>> ELSE <<>>)

\* The four assignments of _enhance_with_seo, in the order of the code.
_enhance_with_seo(m, a) ==
    LET m1 == [m EXCEPT !.trending_keywords =
                   _get_relevant_trending_keywords(m.keywords_en, a)]
        m2 == [m1 EXCEPT !.seo_score = _calculate_seo_score(m1, a)]
        m3 == [m2 EXCEPT !.market_potential = _assess_market_potential(m2, a)]
    IN  [m3 EXCEPT !.technical_tags = _generate_technical_tags(a)]

----------------------------------------------------------------------------
(* Specification of EnhancedAIGenerator.for_image: the platform            *)
(* configuration is looked up, the image analysed, the base Meta built     *)
(* from the AI answer (or the fallback when the AI step fails), and the    *)
(* Meta enriched when optimize_seo is set.                                 *)

FOR_IMAGE_MAX_KW == 50

PlatformIds ==
    {<<"s","h","u","t","t","e","r","s","t","o","c","k">>, <<"a","d","o","b","e","_","s","t","o","c","k">>, <<"g","e","t","t","y","_","i","m","a","g","e","s">>, <<"G","e","t","t","y","_","I","m","a","g","e","s">>,
     <<"n","o","t","_","a","_","p","l","a","t","f","o","r","m">>}

Images ==
    { [stem |-> <<"b","r","o","k","e","n","_","f","i","l","e">>, decodable |-> FALSE, rgb |-> <<0, 0, 0>>,
       brightness |-> 0, contrast |-> 0, width |-> 0, height |-> 0],
      [stem |-> <<"S","u","n","s","e","t","_","o","v","e","r","-","M","o","u","n","t","a","i","n","s">>, decodable |-> TRUE,
       rgb |-> <<230, 150, 100>>, brightness |-> 850, contrast |-> 750,
       width |-> 4000, height |-> 3000],
      [stem |-> <<"I","M","G","_","0","0","0","1">>, decodable |-> TRUE,
       rgb |-> <<20, 30, 90>>, brightness |-> 200, contrast |-> 600,
       width |-> 1920, height |-> 1080],
      [stem |-> <<"f","o","r","e","s","t","-","w","a","l","k">>, decodable |-> TRUE,
       rgb |-> <<90, 140, 80>>, brightness |-> 600, contrast |-> 400,
       width |-> 3000, height |-> 2000],
      [stem |-> <<"_","_">>, decodable |-> TRUE,
       rgb |-> <<240, 240, 240>>, brightness |-> 900, contrast |-> 200,
       width |-> 2000, height |-> 2000],
      [stem |-> <<"t","e","a","m"," ","m","e","e","t","i","n","g"," ","2">>, decodable |-> TRUE,
       rgb |-> <<200, 120, 90>>, brightness |-> 750, contrast |-> 750,
       width |-> 2000, height |-> 3500] }

OfficeKeywords ==
    <<<<"b","u","s","i","n","e","s","s"," ","m","e","e","t","i","n","g">>, <<"h","a","p","p","y"," ","f","a","m","i","l","y">>, <<"o","f","f","i","c","e">>, <<"l","a","p","t","o","p">>, <<"w","i","n","d","o","w">>,
      <<"c","o","f","f","e","e">>, <<"p","e","o","p","l","e">>, <<"d","e","s","k">>, <<"s","m","i","l","i","n","g">>, <<"c","o","l","l","e","a","g","u","e","s">>>>

\* What the AI step yields: an exception, or the mapping parsed from the
\* answer.
AiAnswers ==
    { [raised |-> TRUE, data |-> <<>>],
      [raised |-> FALSE, data |-> <<>>],
      [raised |-> FALSE,
       data |-> [title |-> Rep("x", 40), description |-> Rep("y", 120),
                 keywords_en |-> OfficeKeywords,
                 keywords_zh |-> <<LowTree>>,
                 category |-> <<"B","u","s","i","n","e","s","s">>]],
      [raised |-> FALSE,
       data |-> [title |-> <<" ">> \o Rep("x", 250) \o <<" ">>,
                 description |-> Rep("y", 1100),
                 keywords_en |-> <<PadForest, Blank, <<"m","o","u","n","t","a","i","n">>, <<>> >>]],
      [raised |-> FALSE,
       data |-> [title |-> <<"S","u","n","s","e","t">>,
                 keywords_en |-> <<Tree, LowTree>>,
                 category |-> <<"N","a","t","u","r","e">>]] }

InitForImage ==
    \E img \in Images, platform \in PlatformIds, optimize_seo \in BOOLEAN,
       ai \in AiAnswers :
        /\ pc = "get_platform_config"
        /\ locals = [img |-> img, platform |-> platform,
                     optimize_seo |-> optimize_seo,
                     max_kw |-> FOR_IMAGE_MAX_KW, ai |-> ai,
                     platform_config |-> PLATFORM_CONFIGS[<<"s","h","u","t","t","e","r","s","t","o","c","k">>]]
        /\ meta = "None"
        /\ smeta = "None"
        /\ analysis = "None"
        /\ call = NoCall

GetPlatformConfig ==
    /\ pc = "get_platform_config"
    /\ locals' = [locals EXCEPT
                    !.platform_config = get_platform_config(locals.platform)]
    /\ call' = [impl |-> "get_platform_config",
                args |-> <<locals.platform>>,
                result |-> get_platform_config(locals.platform),
                raised |-> "none"]
    /\ pc' = "analyze_image"
    /\ UNCHANGED <<meta, smeta, analysis>>

AnalyzeImage ==
    /\ pc = "analyze_image"
    /\ analysis' = analyze_image(locals.img)
    /\ pc' = "_generate_base_metadata"
    /\ UNCHANGED <<meta, smeta, call, locals>>

GenerateBaseMetadata ==
    /\ pc = "_generate_base_metadata"
    /\ meta' = IF locals.ai.raised
               THEN _fallback_metadata(locals.img.stem, analysis,
                                       locals.max_kw)
               ELSE BaseMetaFromData(locals.ai.data, analysis,
                                     locals.platform_config)
    /\ pc' = IF locals.optimize_seo THEN "_enhance_with_seo" ELSE "return"
    /\ UNCHANGED <<smeta, analysis, call, locals>>

EnhanceWithSeo ==
    /\ pc = "_enhance_with_seo"
    /\ meta' = _enhance_with_seo(meta, analysis)
    /\ call' = [impl |-> "_enhance_with_seo", args |-> <<meta>>,
                result |-> _enhance_with_seo(meta, analysis),
                raised |-> "none"]
    /\ pc' = "return"
    /\ UNCHANGED <<smeta, analysis, locals>>

NextForImage ==
    \/ GetPlatformConfig
    \/ AnalyzeImage
    \/ GenerateBaseMetadata
    \/ EnhanceWithSeo

SpecForImage == InitForImage /\ [][NextForImage]_vars

Enhanced == pc = "return" /\ call.impl = "_enhance_with_seo"

\* C12: after _enhance_with_seo has returned, the stored seo_score is the
\* score _calculate_seo_score yields on the returned Meta (technical tags
\* included), and the stored market_potential is what
\* _assess_market_potential yields on it.
C12_ScoreReflectsEnrichment ==
    Enhanced =>
        /\ meta.seo_score = _calculate_seo_score(meta, analysis)
        /\ meta.market_potential = _assess_market_potential(meta, analysis)

UnknownPlatform(platform) == lower(platform) \notin DOMAIN PLATFORM_CONFIGS

\* C15: get_platform_config called with an identifier that is not a key of
\* PLATFORM_CONFIGS fails with a configuration error and returns no
\* marketplace's constraints.
C15_UnknownPlatformFails ==
    (call.impl = "get_platform_config" /\ UnknownPlatform(call.args[1])) =>
        /\ call.raised = "ConfigurationError"
        /\ \A k \in DOMAIN PLATFORM_CONFIGS : call.result # PLATFORM_CONFIGS[k]

----------------------------------------------------------------------------
(* json.loads on the characters of a text.  A parsed value is a record     *)
(* tagged with its Python type: dict (items: <<key, value>> pairs in       *)
(* insertion order), list, str, int, bool, NoneType.  The texts handed to  *)
(* the parser hold no backslash, sign, fraction or exponent.               *)

Digits == <<"0","1","2","3","4","5","6","7","8","9">>

IsDigit(c) == \E i \in DOMAIN Digits : Digits[i] = c

DigitValue(c) == (CHOOSE i \in DOMAIN Digits : Digits[i] = c) - 1

PyNone == [type |-> "NoneType"]
PyDict(items) == [type |-> "dict", items |-> items]
PyList(items) == [type |-> "list", items |-> items]
PyStr(s) == [type |-> "str", s |-> s]
PyInt(n) == [type |-> "int", n |-> n]
PyBool(b) == [type |-> "bool", b |-> b]

ParseFail == [ok |-> FALSE, v |-> PyNone, next |-> 0]
ParseOk(v, next) == [ok |-> TRUE, v |-> v, next |-> next]

RECURSIVE SkipWs(_, _)
SkipWs(s, i) ==
    IF i <= Len(s) /\ s[i] \in Whitespace THEN SkipWs(s, i + 1) ELSE i

StartsWithAt(s, i, lit) ==
    /\ i + Len(lit) - 1 <= Len(s)
    /\ SubSeq(s, i, i + Len(lit) - 1) = lit

\* d[key] = value on the item list of a dict
SetItem(items, key, value) ==
    IF \E i \in DOMAIN items : items[i][1] = key
    THEN [i \in DOMAIN items |->
             IF items[i][1] = key THEN <<key, value>> ELSE items[i]]
    ELSE Append(items, <<key, value>>)

\* A string literal opening at s[j]: the characters up to the next quote,
\* none of which may be a control character.
ParseString(s, j) ==
    IF \E k \in (j + 1)..Len(s) : s[k] = "\""
    THEN LET k == CHOOSE k \in (j + 1)..Len(s) :
                      /\ s[k] = "\""
                      /\ \A l \in (j + 1)..(k - 1) : s[l] # "\""
         IN  IF \E l \in (j + 1)..(k - 1) : s[l] \in {"\n", "\t", "\r"}
             THEN ParseFail
             ELSE ParseOk(PyStr(SubSeq(s, j + 1, k - 1)), k + 1)
    ELSE ParseFail

RECURSIVE DigitsEnd(_, _)
DigitsEnd(s, i) ==
    IF i <= Len(s) /\ IsDigit(s[i]) THEN DigitsEnd(s, i + 1) ELSE i

RECURSIVE NumberValue(_)
NumberValue(ds) ==
    IF ds = <<>> THEN 0
    ELSE 10 * NumberValue(SubSeq(ds, 1, Len(ds) - 1)) + DigitValue(ds[Len(ds)])

\* An integer opening at the digit s[j]: "0" alone, or a run of digits.
ParseNumber(s, j) ==
    IF s[j] = "0" THEN ParseOk(PyInt(0), j + 1)
    ELSE ParseOk(PyInt(NumberValue(SubSeq(s, j, DigitsEnd(s, j) - 1))),
                 DigitsEnd(s, j))

RECURSIVE ParseValue(_, _)
RECURSIVE ParseMembers(_, _, _)
RECURSIVE ParseElements(_, _, _)

ParseValue(s, i) ==
    LET j == SkipWs(s, i)
    IN  IF j > Len(s) THEN ParseFail
        ELSE IF s[j] = "{"
             THEN (IF SkipWs(s, j + 1) <= Len(s) /\ s[SkipWs(s, j + 1)] = "}"
                   THEN ParseOk(PyDict(<<>>), SkipWs(s, j + 1) + 1)
                   ELSE ParseMembers(s, SkipWs(s, j + 1), <<>>))
        ELSE IF s[j] = "["
             THEN (IF SkipWs(s, j + 1) <= Len(s) /\ s[SkipWs(s, j + 1)] = "]"
                   THEN ParseOk(PyList(<<>>), SkipWs(s, j + 1) + 1)
                   ELSE ParseElements(s, j + 1, <<>>))
        ELSE IF s[j] = "\"" THEN ParseString(s, j)
        ELSE IF IsDigit(s[j]) THEN ParseNumber(s, j)
        ELSE IF StartsWithAt(s, j, <<"t","r","u","e">>) THEN ParseOk(PyBool(TRUE), j + 4)
        ELSE IF StartsWithAt(s, j, <<"f","a","l","s","e">>) THEN ParseOk(PyBool(FALSE), j + 5)
        ELSE IF StartsWithAt(s, j, <<"n","u","l","l">>) THEN ParseOk(PyNone, j + 4)
        ELSE ParseFail

\* The members of an object, a key being expected at s[i].
ParseMembers(s, i, items) ==
    IF i > Len(s) \/ s[i] # "\"" THEN ParseFail
    ELSE LET key == ParseString(s, i)
             colon == SkipWs(s, key.next)
             val == ParseValue(s, colon + 1)
             d == SkipWs(s, val.next)
         IN  IF ~key.ok THEN ParseFail
             ELSE IF colon > Len(s) \/ s[colon] # ":" THEN ParseFail
             ELSE IF ~val.ok THEN ParseFail
             ELSE IF d > Len(s) THEN ParseFail
             ELSE IF s[d] = "}"
                  THEN ParseOk(PyDict(SetItem(items, key.v.s, val.v)), d + 1)
             ELSE IF s[d] = ","
                  THEN ParseMembers(s, SkipWs(s, d + 1),
                                    SetItem(items, key.v.s, val.v))
             ELSE ParseFail

\* The elements of an array, a value being expected from s[i] on.
ParseElements(s, i, items) ==
    LET val == ParseValue(s, i)
        d == SkipWs(s, val.next)
    IN  IF ~val.ok THEN ParseFail
        ELSE IF d > Len(s) THEN ParseFail
        ELSE IF s[d] = "]" THEN ParseOk(PyList(Append(items, val.v)), d + 1)
        ELSE IF s[d] = "," THEN ParseElements(s, d + 1, Append(items, val.v))
        ELSE ParseFail

\* json.loads(s): one value, surrounded by whitespace only.
json_loads(s) ==
    LET r == ParseValue(s, 1)
    IN  IF r.ok /\ SkipWs(s, r.next) > Len(s) THEN r ELSE ParseFail

----------------------------------------------------------------------------
(* _force_json of stockmate_pro.py and of stockmate.py *)

EndsWith(s, lit) ==
    /\ Len(lit) <= Len(s)
    /\ SubSeq(s, Len(s) - Len(lit) + 1, Len(s)) = lit

\* re.sub of the pattern "three backticks, then [a-zA-Z]*" at the start of
\* a text that starts with the fence: the three backticks and the run of
\* letters after them are removed.
RECURSIVE DropLetters(_)
DropLetters(s) ==
    IF s # <<>> /\ IsLetter(Head(s)) THEN DropLetters(Tail(s)) ELSE s

\* The text json.loads is first tried on: stripped, and without the code
\* fence when it starts with one.  The backtick character, which a TLA+
\* string cannot hold, is written "backtick".
Unfenced(s) ==
    LET s1 == strip(s)
        s2 == strip(DropLetters(SubSeq(s1, 4, Len(s1))))
    IN  IF StartsWithAt(s1, 1, <<"backtick","backtick","backtick">>)
        THEN (IF EndsWith(s2, <<"backtick","backtick","backtick">>) THEN SubSeq(s2, 1, Len(s2) - 3) ELSE s2)
        ELSE s1

\* re.search(r"\{.*\}", s, flags=re.S): from the first "{" to the last "}"
\* after it; <<>> when there is no match (a match is never empty).
SearchObject(s) ==
    LET opens == {i \in DOMAIN s : s[i] = "{"}
        closes == {i \in DOMAIN s : s[i] = "}"}
        first == CHOOSE i \in opens : \A j \in opens : i <= j
        last == CHOOSE i \in closes : \A j \in closes : j <= i
    IN  IF opens # {} /\ closes # {} /\ first < last
        THEN SubSeq(s, first, last)
        ELSE <<>>

\* The try/except cascade both implementations share: json.loads on the
\* whole text, then on the braces match.
ParseCascade(s) ==
    IF json_loads(Unfenced(s)).ok THEN json_loads(Unfenced(s))
    ELSE IF SearchObject(Unfenced(s)) # <<>>
            /\ json_loads(SearchObject(Unfenced(s))).ok
         THEN json_loads(SearchObject(Unfenced(s)))
    ELSE ParseFail

\* The record stockmate_pro._force_json returns when nothing parses.
FALLBACK_RECORD ==
    PyDict(<< <<<<"t","i","t","l","e">>, PyStr(<<"U","n","t","i","t","l","e","d">>)>>,
              <<<<"d","e","s","c","r","i","p","t","i","o","n">>, PyStr(<<"S","t","o","c","k"," ","p","h","o","t","o">>)>>,
              <<<<"k","e","y","w","o","r","d","s","_","e","n">>, PyList(<<>>)>>,
              <<<<"k","e","y","w","o","r","d","s","_","z","h">>, PyList(<<>>)>> >>)

\* stockmate_pro._force_json
_force_json(s) ==
    IF ParseCascade(s).ok
    THEN [raised |-> "none", result |-> ParseCascade(s).v]
    ELSE [raised |-> "none", result |-> FALLBACK_RECORD]

\* stockmate._force_json
stockmate_force_json(s) ==
    IF ParseCascade(s).ok
    THEN [raised |-> "none", result |-> ParseCascade(s).v]
    ELSE [raised |-> "ValueError", result |-> PyNone]

----------------------------------------------------------------------------
(* Specification of _force_json: a text is given, and either               *)
(* implementation is applied to it.                                        *)

JsonPrefixes == {<<>>, <<"n","o","i","s","e"," ","b","e","f","o","r","e"," ">>, <<" ","\n">>}
JsonFences == {<<>>, <<"backtick","backtick","backtick">>, <<"backtick","backtick","backtick","j","s","o","n","\n">>}
JsonBodies ==
    { <<"{","\"","t","i","t","l","e","\"",":","\"","T","\"",",","\"","d","e","s","c","r","i","p","t","i","o","n","\"",":","\"","D","\"",",","\"","k","e","y","w","o","r","d","s","_","e","n","\"",":","[","\"","a","\"","]",",","\"","k","e","y","w","o","r","d","s","_","z","h","\"",":","[","\"","b","\"","]",",","\"","c","a","t","e","g","o","r","y","\"",":","\"","C","\"","}">>,
      <<"{","\"","t","i","t","l","e","\"",":"," ","\"","T","\"","}">>,
      <<"{","}">>,
      <<>>,
      <<"g","a","r","b","a","g","e">>,
      <<"[","1",","," ","2","]">>,
      <<"7">>,
      <<"n","u","l","l">>,
      <<"\"","s","t","r","\"">>,
      <<"{","\"","a","\"",":"," ","1","}"," ","a","n","d"," ","{","\"","b","\"",":"," ","2","}">>,
      <<"{","\"","a","\"",":"," ","}">>,
      <<"{","\n"," ","\"","x","\""," ",":"," ","{"," ","\"","y","\""," ",":"," ","["," ","t","r","u","e",","," ","1","0"," ","]"," ",","," ","\"","x","\""," ",":"," ","2"," ","}","\n","}">> }
JsonClosers == {<<>>, <<"\n","backtick","backtick","backtick">>}
JsonSuffixes == {<<>>, <<" ","n","o","i","s","e"," ","a","f","t","e","r">>}

JsonTexts ==
    {p \o f \o b \o c \o x :
        p \in JsonPrefixes, f \in JsonFences, b \in JsonBodies,
        c \in JsonClosers, x \in JsonSuffixes}

InitJson ==
    \E s \in JsonTexts :
        /\ locals = [s |-> s]
        /\ pc = "idle"
        /\ call = NoCall
        /\ meta = "None"
        /\ smeta = "None"
        /\ analysis = "None"

ForceJsonPro ==
    /\ call' = [impl |-> "stockmate_pro._force_json",
                args |-> <<locals.s>>,
                result |-> _force_json(locals.s).result,
                raised |-> _force_json(locals.s).raised]
    /\ UNCHANGED <<meta, smeta, analysis, pc, locals>>

ForceJsonStockmate ==
    /\ call' = [impl |-> "stockmate._force_json",
                args |-> <<locals.s>>,
                result |-> stockmate_force_json(locals.s).result,
                raised |-> stockmate_force_json(locals.s).raised]
    /\ UNCHANGED <<meta, smeta, analysis, pc, locals>>

NextJson ==
    \/ ForceJsonPro
    \/ ForceJsonStockmate

SpecJson == InitJson /\ [][NextJson]_vars

ForcedPro == call.impl = "stockmate_pro._force_json"
ForcedStockmate == call.impl = "stockmate._force_json"

Keys(d) == {d.items[i][1] : i \in DOMAIN d.items}

\* C13: _force_json, in stockmate_pro.py and in stockmate.py, never raises
\* and returns a mapping for every text; when no JSON value can be parsed
\* from the text the mapping is the fallback record.
C13_NeverRaisesReturnsMapping ==
    (ForcedPro \/ ForcedStockmate) =>
        /\ call.raised = "none"
        /\ call.result.type = "dict"
        /\ ~ParseCascade(call.args[1]).ok => call.result = FALLBACK_RECORD

\* C14: the mapping stockmate_pro._force_json returns has the five keys
\* title, description, keywords_en, keywords_zh and category, for a parsed
\* object and for the fallback record alike.
C14_FiveKeys ==
    ForcedPro =>
        /\ call.result.type = "dict"
        /\ {<<"t","i","t","l","e">>, <<"d","e","s","c","r","i","p","t","i","o","n">>, <<"k","e","y","w","o","r","d","s","_","e","n">>, <<"k","e","y","w","o","r","d","s","_","z","h">>,
            <<"c","a","t","e","g","o","r","y">>} \subseteq Keys(call.result)

----------------------------------------------------------------------------
(* TrendAnalyzer.analyze_batch_trends.  A Counter (and a dict) is a        *)
(* sequence of <<key, value>> pairs in insertion order.  A float quotient  *)
(* is the pair of its numerator and denominator; np.mean of an empty list  *)
(* is NaN.                                                                 *)

HIGH_DEMAND ==
    <<<<"r","e","m","o","t","e"," ","w","o","r","k">>, <<"s","u","s","t","a","i","n","a","b","i","l","i","t","y">>, <<"d","i","v","e","r","s","i","t","y">>, <<"m","e","n","t","a","l"," ","h","e","a","l","t","h">>,
      <<"A","I"," ","t","e","c","h","n","o","l","o","g","y">>, <<"e","l","e","c","t","r","i","c"," ","v","e","h","i","c","l","e","s">>, <<"p","l","a","n","t","-","b","a","s","e","d">>, <<"m","i","n","i","m","a","l","i","s","m">>>>

TOP_KEYWORDS == 20
TOP_CATEGORIES == 10

\* Counter(items): counts in order of first occurrence
RECURSIVE CounterLoop(_, _)
CounterLoop(items, counter) ==
    IF items = <<>> THEN counter
    ELSE CounterLoop(
             Tail(items),
             IF \E i \in DOMAIN counter : counter[i][1] = Head(items)
             THEN [i \in DOMAIN counter |->
                      IF counter[i][1] = Head(items)
                      THEN <<counter[i][1], counter[i][2] + 1>>
                      ELSE counter[i]]
             ELSE Append(counter, <<Head(items), 1>>))

Counter(items) == CounterLoop(items, <<>>)

\* sorted(counter.items(), key=count, reverse=True): a stable sort, so
\* equal counts stay in insertion order.
RECURSIVE most_common_all(_)
most_common_all(counter) ==
    IF counter = <<>> THEN <<>>
    ELSE LET best == CHOOSE i \in DOMAIN counter :
                         \A j \in DOMAIN counter :
                             \/ counter[j][2] < counter[i][2]
                             \/ (counter[j][2] = counter[i][2] /\ i <= j)
         IN  <<counter[best]>>
             \o most_common_all(
                    [i \in 1..(Len(counter) - 1) |->
                        IF i < best THEN counter[i] ELSE counter[i + 1]])

most_common(counter, n) == Take(most_common_all(counter), n)

RECURSIVE AllKeywordsLoop(_)
AllKeywordsLoop(metadata_list) ==
    IF metadata_list = <<>> THEN <<>>
    ELSE Head(metadata_list).keywords_en
         \o Head(metadata_list).trending_keywords
         \o AllKeywordsLoop(Tail(metadata_list))

RECURSIVE NonEmptyCategories(_)
NonEmptyCategories(metadata_list) ==
    IF metadata_list = <<>> THEN <<>>
    ELSE (IF Head(metadata_list).category # <<>>
          THEN <<Head(metadata_list).category>> ELSE <<>>)
         \o NonEmptyCategories(Tail(metadata_list))

RECURSIVE SumScores(_)
SumScores(metadata_list) ==
    IF metadata_list = <<>> THEN 0
    ELSE Head(metadata_list).seo_score + SumScores(Tail(metadata_list))

\* np.mean(values): sum / len, NaN for the empty list
np_mean(metadata_list) ==
    IF metadata_list = <<>>
    THEN [nan |-> TRUE, num |-> 0, den |-> 0]
    ELSE [nan |-> FALSE, num |-> SumScores(metadata_list),
          den |-> Len(metadata_list)]

\* trend_boost in tenths: 1.5 if keyword in MARKET_TRENDS['high_demand']
TrendBoost(keyword) ==
    IF \E i \in DOMAIN HIGH_DEMAND : HIGH_DEMAND[i] = keyword
    THEN 15 ELSE 10

\* (count / len(metadata_list)) * trend_boost, as numerator and denominator
TrendScores(keyword_counts, n) ==
    [i \in DOMAIN keyword_counts |->
        <<keyword_counts[i][1],
          [num |-> keyword_counts[i][2] * TrendBoost(keyword_counts[i][1]),
           den |-> n * 10]>>]

analyze_batch_trends(metadata_list) ==
    LET keyword_counts == Counter(AllKeywordsLoop(metadata_list))
        category_counts == Counter(NonEmptyCategories(metadata_list))
    IN  [top_keywords |-> most_common(keyword_counts, TOP_KEYWORDS),
         trend_scores |-> TrendScores(keyword_counts, Len(metadata_list)),
         top_categories |-> most_common(category_counts, TOP_CATEGORIES),
         avg_seo_score |-> np_mean(metadata_list),
         market_potential_distribution |->
             Counter([i \in DOMAIN metadata_list |->
                         metadata_list[i].market_potential])]

----------------------------------------------------------------------------
(* Specification of the trend analysis: a list of Meta records is given,   *)
(* and analyze_batch_trends is applied to it.                              *)

MaxBatch == 3      \* longest metadata_list

TrendMetas ==
    { [Meta(TitleT, DescriptionD, Filler("a", 11), <<>>)
       EXCEPT !.category = <<"N","a","t","u","r","e">>, !.seo_score = 760000],
      [Meta(TitleT, DescriptionD, Filler("b", 11), <<>>)
       EXCEPT !.category = <<"B","u","s","i","n","e","s","s">>, !.seo_score = 960000,
              !.market_potential = "High"],
      [Meta(TitleT, DescriptionD, <<<<"S","u","s","t","a","i","n","a","b","i","l","i","t","y">>, LowTree>>, <<>>)
       EXCEPT !.trending_keywords = <<<<"r","e","m","o","t","e"," ","w","o","r","k">>, <<"s","u","s","t","a","i","n","a","b","i","l","i","t","y">>>>,
              !.seo_score = 400000, !.market_potential = "Low"],
      [Meta(TitleT, DescriptionD,
            <<<<"A","I"," ","t","e","c","h","n","o","l","o","g","y">>, <<"a","i"," ","t","e","c","h","n","o","l","o","g","y">>, LowTree>>, <<>>)
       EXCEPT !.trending_keywords = <<LowTree>>,
              !.category = <<"N","a","t","u","r","e">>, !.seo_score = 600000] }

MetadataLists == UNION {[1..n -> TrendMetas] : n \in 0..MaxBatch}

InitTrends ==
    \E metadata_list \in MetadataLists :
        /\ locals = [metadata_list |-> metadata_list]
        /\ pc = "idle"
        /\ call = NoCall
        /\ meta = "None"
        /\ smeta = "None"
        /\ analysis = "None"

AnalyzeBatchTrends ==
    /\ call' = [impl |-> "analyze_batch_trends",
                args |-> <<locals.metadata_list>>,
                result |-> analyze_batch_trends(locals.metadata_list),
                raised |-> "none"]
    /\ UNCHANGED <<meta, smeta, analysis, pc, locals>>

NextTrends == AnalyzeBatchTrends

SpecTrends == InitTrends /\ [][NextTrends]_vars

Analyzed == call.impl = "analyze_batch_trends"

\* C16: on the empty list the report has an average SEO score of exactly
\* 0.0 (not NaN) and empty keyword, trend-score, category and
\* market-potential aggregates, and nothing is raised.
C16_EmptyBatch ==
    (Analyzed /\ call.args[1] = <<>>) =>
        /\ call.raised = "none"
        /\ call.result.top_keywords = <<>>
        /\ call.result.trend_scores = <<>>
        /\ call.result.top_categories = <<>>
        /\ call.result.market_potential_distribution = <<>>
        /\ ~call.result.avg_seo_score.nan
        /\ call.result.avg_seo_score.num = 0

Occurrences(keyword, items) ==
    Cardinality({i \in DOMAIN items : items[i] = keyword})

\* C17: for a batch of n >= 1 records, the trend scores are given for
\* exactly the keywords of keywords_en and trending_keywords, and the score
\* of keyword k is (occurrences of k / n) times 1.5 when k equals a
\* high-demand entry compared case-insensitively, times 1.0 otherwise.
C17_TrendScores ==
    (Analyzed /\ call.args[1] # <<>>) =>
        LET all == AllKeywordsLoop(call.args[1])
            n == Len(call.args[1])
            scores == call.result.trend_scores
            boost(k) ==
                IF \E i \in DOMAIN HIGH_DEMAND :
                       lower(HIGH_DEMAND[i]) = lower(k)
                THEN 15 ELSE 10
        IN  /\ {scores[i][1] : i \in DOMAIN scores}
                   = {all[i] : i \in DOMAIN all}
            /\ \A i \in DOMAIN scores :
                   scores[i][2].num * (n * 10)
                       = Occurrences(scores[i][1], all) * boost(scores[i][1])
                         * scores[i][2].den

\* A dict compared as Python compares dicts: as a set of items.
Items(d) == {d[i] : i \in DOMAIN d}

ReportAsMapping(report) ==
    [top_keywords |-> Items(report.top_keywords),
     trend_scores |-> Items(report.trend_scores),
     top_categories |-> Items(report.top_categories),
     avg_seo_score |-> report.avg_seo_score,
     market_potential_distribution |->
         Items(report.market_potential_distribution)]

Permuted(list) ==
    {[i \in DOMAIN list |-> list[p[i]]] :
        p \in {q \in [DOMAIN list -> DOMAIN list] :
                  \A i, j \in DOMAIN list : q[i] = q[j] => i = j}}

\* The characters of the keywords in code-point order.
CodePoints ==
    <<" ", "-">> \o Digits \o UpperCase \o <<"_">> \o LowerCase

CodePoint(c) == CHOOSE i \in DOMAIN CodePoints : CodePoints[i] = c

RECURSIVE LexLess(_, _)
LexLess(a, b) ==
    IF b = <<>> THEN FALSE
    ELSE IF a = <<>> THEN TRUE
    ELSE IF Head(a) = Head(b) THEN LexLess(Tail(a), Tail(b))
    ELSE CodePoint(Head(a)) < CodePoint(Head(b))

\* The n most frequent items of a counter, ties in lexical order of the key.
LexicalTop(counter, n) ==
    {item \in Items(counter) :
        Cardinality({other \in Items(counter) :
                        \/ other[2] > item[2]
                        \/ (other[2] = item[2] /\ LexLess(other[1], item[1]))})
            < n}

\* C18: the report does not depend on the order of the records, and the
\* top-20 keywords and top-10 categories are cut with frequency ties in
\* lexical order of the keyword.
C18_OrderIndependent ==
    Analyzed =>
        /\ \A permuted \in Permuted(call.args[1]) :
               ReportAsMapping(analyze_batch_trends(permuted))
                   = ReportAsMapping(call.result)
        /\ Items(call.result.top_keywords)
               = LexicalTop(Counter(AllKeywordsLoop(call.args[1])),
                            TOP_KEYWORDS)
        /\ Items(call.result.top_categories)
               = LexicalTop(Counter(NonEmptyCategories(call.args[1])),
                            TOP_CATEGORIES)

----------------------------------------------------------------------------
(* stockuploader/generator.py: _tokenize_filename *)

COMMON_STOPWORDS ==
    {<<"t","h","e">>, <<"a">>, <<"a","n">>, <<"a","n","d">>, <<"o","f">>, <<"i","n">>, <<"o","n">>, <<"t","o">>, <<"f","o","r">>, <<"w","i","t","h">>, <<"b","y">>,
     <<"a","t">>, <<"f","r","o","m">>, <<"i","s">>, <<"a","r","e">>, <<"b","e">>, <<"t","h","i","s">>, <<"t","h","a","t">>, <<"t","h","e","s","e">>, <<"t","h","o","s","e">>,
     <<"p","h","o","t","o">>, <<"i","m","a","g","e">>, <<"p","i","c","t","u","r","e">>, <<"i","m","g">>, <<"f","i","n","a","l">>, <<"e","d","i","t">>, <<"c","o","p","y">>,
     <<"v","e","r","s","i","o","n">>}

\* os.path.basename(path): what follows the last "/"
basename(path) ==
    LET slashes == {i \in DOMAIN path : path[i] = "/"}
        last == CHOOSE i \in slashes : \A j \in slashes : j <= i
    IN  IF slashes = {} THEN path ELSE SubSeq(path, last + 1, Len(path))

\* os.path.splitext(name)[0]: the name up to its last ".", provided a
\* character other than "." precedes that dot.
splitext_root(name) ==
    LET dots == {i \in DOMAIN name : name[i] = "."}
        last == CHOOSE i \in dots : \A j \in dots : j <= i
    IN  IF dots # {} /\ \E i \in 1..(last - 1) : name[i] # "."
        THEN SubSeq(name, 1, last - 1)
        ELSE name

\* re.sub(r"[\-_.,]+", " ", name): every run of separators becomes a space
RECURSIVE SubFilenameSeparators(_, _)
SubFilenameSeparators(s, inRun) ==
    IF s = <<>> THEN <<>>
    ELSE IF Head(s) \in {"-", "_", ".", ","}
         THEN (IF inRun THEN <<>> ELSE <<" ">>)
              \o SubFilenameSeparators(Tail(s), TRUE)
         ELSE <<Head(s)>> \o SubFilenameSeparators(Tail(s), FALSE)

\* re.split(r"\s+", s): the pieces between runs of whitespace, the empty
\* pieces at either end included.
RECURSIVE SplitWhitespace(_, _, _, _)
SplitWhitespace(s, word, inRun, out) ==
    IF s = <<>> THEN Append(out, word)
    ELSE IF Head(s) \notin Whitespace
         THEN SplitWhitespace(Tail(s), Append(word, Head(s)), FALSE, out)
         ELSE SplitWhitespace(Tail(s), <<>>, TRUE,
                              IF inRun THEN out ELSE Append(out, word))

\* re.sub(r"[^a-zA-Z0-9]", "", t)
RECURSIVE KeepAlnum(_)
KeepAlnum(t) ==
    IF t = <<>> THEN <<>>
    ELSE (IF IsLetter(Head(t)) \/ IsDigit(Head(t)) THEN <<Head(t)>> ELSE <<>>)
         \o KeepAlnum(Tail(t))

\* str.isdigit(): non-empty and digits only
isdigit(t) == t # <<>> /\ \A i \in DOMAIN t : IsDigit(t[i])

\* The four "continue" tests of the token loop, negated.
KeepToken(t_norm) ==
    /\ t_norm # <<>>
    /\ ~isdigit(t_norm)
    /\ Len(t_norm) > 2
    /\ t_norm \notin COMMON_STOPWORDS

RECURSIVE TokenLoop(_)
TokenLoop(raw_tokens) ==
    IF raw_tokens = <<>> THEN <<>>
    ELSE (IF KeepToken(lower(KeepAlnum(Head(raw_tokens))))
          THEN <<lower(KeepAlnum(Head(raw_tokens)))>> ELSE <<>>)
         \o TokenLoop(Tail(raw_tokens))

\* Variant of the deduplication loop that appends every token.
RECURSIVE OrderedLoop_NoSeen(_, _, _)
OrderedLoop_NoSeen(tokens, seen, ordered) ==
    IF tokens = <<>> THEN ordered
    ELSE OrderedLoop_NoSeen(Tail(tokens), seen \cup {Head(tokens)},
                            Append(ordered, Head(tokens)))

\* Deduplicate while preserving order
RECURSIVE OrderedLoop(_, _, _)
OrderedLoop(tokens, seen, ordered) ==
    IF tokens = <<>> THEN ordered
    ELSE IF Head(tokens) \notin seen
         THEN OrderedLoop(Tail(tokens), seen \cup {Head(tokens)},
                          Append(ordered, Head(tokens)))
         ELSE OrderedLoop(Tail(tokens), seen, ordered)

_tokenize_filename(path) ==
    LET name == SubFilenameSeparators(splitext_root(basename(path)), FALSE)
        raw_tokens == SplitWhitespace(name, <<>>, FALSE, <<>>)
    IN  OrderedLoop(TokenLoop(raw_tokens), {}, <<>>)

----------------------------------------------------------------------------
(* Specification of the filename tokenizer: a path is given, and           *)
(* _tokenize_filename is applied to it.                                    *)

MaxNameItems == 3      \* pieces and separators concatenated into one name

NameItems ==
    {<<"S","u","n","s","e","t">>, <<"s","u","n","s","e","t">>, <<"2","0","2","3">>, <<"t","h","e">>, <<"x","(","1",")","y">>,
     <<"_">>, <<" ">>, <<".">>}

RECURSIVE Concat(_)
Concat(items) ==
    IF items = <<>> THEN <<>> ELSE Head(items) \o Concat(Tail(items))

Names == {Concat(items) :
             items \in UNION {[1..n -> NameItems] : n \in 0..MaxNameItems}}

Paths ==
    {<<"p","h","o","t","o","s","/","m","y",".","s","e","t","/">> \o name \o <<".","j","p","g">> : name \in Names}
    \cup {name \o <<",","v","2">> : name \in Names}
    \cup {<<"S","u","n","s","e","t","_","O","v","e","r","-","M","o","u","n","t","a","i","n","s","_","2","0","2","3",".","j","p","g">>}

InitTokenize ==
    \E path \in Paths :
        /\ locals = [path |-> path]
        /\ pc = "idle"
        /\ call = NoCall
        /\ meta = "None"
        /\ smeta = "None"
        /\ analysis = "None"

TokenizeFilename ==
    /\ call' = [impl |-> "_tokenize_filename",
                args |-> <<locals.path>>,
                result |-> _tokenize_filename(locals.path),
                raised |-> "none"]
    /\ UNCHANGED <<meta, smeta, analysis, pc, locals>>

NextTokenize == TokenizeFilename

SpecTokenize == InitTokenize /\ [][NextTokenize]_vars

Tokenized == call.impl = "_tokenize_filename"

IsNameSeparator(c) == c \in {"-", "_", ".", ","} \cup Whitespace

\* The pieces of a stem: its maximal runs of non-separator characters, as
\* <<first, last>> index pairs.
PieceSpans(stem) ==
    {span \in (DOMAIN stem) \X (DOMAIN stem) :
        /\ span[1] <= span[2]
        /\ \A i \in span[1]..span[2] : ~IsNameSeparator(stem[i])
        /\ span[1] = 1 \/ IsNameSeparator(stem[span[1] - 1])
        /\ span[2] = Len(stem) \/ IsNameSeparator(stem[span[2] + 1])}

\* A piece reduced to its letters and digits, lower-cased.
PieceToken(stem, span) ==
    LET alnum == {i \in span[1]..span[2] :
                     IsLetter(stem[i]) \/ IsDigit(stem[i])}
        nth(k) == CHOOSE i \in alnum :
                      Cardinality({j \in alnum : j < i}) = k - 1
    IN  [k \in 1..Cardinality(alnum) |-> LowerChar(stem[nth(k)])]

Wanted(token) ==
    /\ token # <<>>
    /\ \E i \in DOMAIN token : ~IsDigit(token[i])
    /\ Len(token) > 2
    /\ token \notin COMMON_STOPWORDS

\* Where in the stem a token first appears.
FirstAppearance(stem, token) ==
    CHOOSE first \in DOMAIN stem :
        /\ \E span \in PieceSpans(stem) :
               span[1] = first /\ PieceToken(stem, span) = token
        /\ \A span \in PieceSpans(stem) :
               PieceToken(stem, span) = token => first <= span[1]

\* C19: _tokenize_filename returns, in order of first appearance and
\* without repetition, exactly the lower-cased alphanumeric pieces of the
\* filename stem that are non-empty, not purely numeric, longer than 2
\* characters and no stopword; the empty list when there is none.
C19_TokenizeFilename ==
    Tokenized =>
        LET stem == splitext_root(basename(call.args[1]))
            tokens == call.result
        IN  /\ \A i, j \in DOMAIN tokens : tokens[i] = tokens[j] => i = j
            /\ {tokens[i] : i \in DOMAIN tokens}
                   = {token \in {PieceToken(stem, span) :
                                    span \in PieceSpans(stem)} :
                         Wanted(token)}
            /\ \A i, j \in DOMAIN tokens :
                   i < j => FirstAppearance(stem, tokens[i])
                                < FirstAppearance(stem, tokens[j])

\* The name "Sunset_Over-Mountains_2023.jpg" was tokenized: the numeric piece
\* is dropped and the three words are returned lower-cased, in order.
C19_Witness ==
    /\ Tokenized
    /\ call.args[1] = <<"S","u","n","s","e","t","_","O","v","e","r","-","M","o","u","n","t","a","i","n","s","_","2","0","2","3",".","j","p","g">>
    /\ call.result = <<<<"s","u","n","s","e","t">>, <<"o","v","e","r">>, <<"m","o","u","n","t","a","i","n","s">>>>

----------------------------------------------------------------------------
(* The batch loops: stockmate.process_folder,                              *)
(* stockmate_pro.process_folder_enhanced and                               *)
(* EnhancedStockMate.process_images, from the list of images on.  An image *)
(* is known by its position in the list, which stands for its file name;   *)
(* what for_image does on it (return a Meta, or raise) and what            *)
(* upload_image returns for it are given with the list.  A row is the      *)
(* file name of its image, and exported holds the rows of each call of the *)
(* CSV export.                                                             *)

MaxImages == 3      \* longest list of images

BatchLoops == {"process_folder", "process_folder_enhanced", "process_images"}

\* What can happen to one image: for_image returns a Meta or raises, and
\* upload_image (reached only with auto_upload) reports success or failure.
ImageOutcomes(auto_upload, driver) ==
    [generation : {"Meta", "raises"},
     upload : IF ~auto_upload THEN {"none"}
              ELSE IF driver = "None" THEN {"failure"}
              ELSE {"success", "failure"}]

ImageLists(auto_upload, driver) ==
    UNION {[1..n -> ImageOutcomes(auto_upload, driver)] : n \in 0..MaxImages}

BatchLocals(impl, images, write_iptc_flag, csv_path, analyze_trends, auto_upload, driver) ==
    [impl |-> impl,
     images |-> images,
     write_iptc_flag |-> write_iptc_flag,
     csv_path |-> csv_path,
     analyze_trends |-> analyze_trends,
     auto_upload |-> auto_upload,
     driver |-> driver,
     i |-> 0,
     visited |-> <<>>,
     rows |-> <<>>,
     metadata_list |-> <<>>,
     iptc |-> <<>>,
     upload_history |-> <<>>,
     errors |-> <<>>,
     exported |-> <<>>,
     trends |-> FALSE]

\* The state in which the list of images has just been built.  Only
\* process_images uploads, and its platform instance holds a driver once
\* login has run; only process_folder_enhanced analyzes trends.
InitBatch ==
    /\ \E impl \in BatchLoops, write_iptc_flag, csv_path \in BOOLEAN,
          analyze_trends, auto_upload \in BOOLEAN,
          driver \in {"None", "Driver"} :
           /\ analyze_trends => impl = "process_folder_enhanced"
           /\ auto_upload => impl = "process_images"
           /\ driver = "Driver" => auto_upload
           /\ \E images \in ImageLists(auto_upload, driver) :
                  locals = BatchLocals(impl, images, write_iptc_flag,
                                       csv_path, analyze_trends,
                                       auto_upload, driver)
    /\ pc = "images"
    /\ call = NoCall
    /\ meta = "None"
    /\ smeta = "None"
    /\ analysis = "None"

\* if not images: return
NoImages ==
    /\ pc = "images"
    /\ pc' = IF locals.images = <<>> THEN "return" ELSE "for"
    /\ UNCHANGED <<meta, smeta, call, analysis, locals>>

\* for p in images: the next image is taken, or the loop ends
ForNext ==
    /\ pc = "for"
    /\ IF locals.i < Len(locals.images)
       THEN /\ locals' = [locals EXCEPT !.i = @ + 1,
                                        !.visited = Append(@, locals.i + 1)]
            /\ pc' = "for_image"
       ELSE /\ pc' = "export_csv"
            /\ UNCHANGED locals
    /\ UNCHANGED <<meta, smeta, call, analysis>>

\* meta = ai.for_image(p, ...), inside the try; process_folder_enhanced
\* appends the Meta to metadata_list right away.
ForImage ==
    /\ pc = "for_image"
    /\ IF locals.images[locals.i].generation = "raises"
       THEN /\ pc' = "except"
            /\ UNCHANGED locals
       ELSE /\ pc' = "write_iptc"
            /\ locals' = IF locals.impl = "process_folder_enhanced"
                         THEN [locals EXCEPT
                                  !.metadata_list = Append(@, locals.i)]
                         ELSE locals
    /\ UNCHANGED <<meta, smeta, call, analysis>>

\* if write_iptc_flag: ok, msg = write_iptc(...); write_iptc returns its
\* failures as (False, message) and raises nothing.
WriteIptc ==
    /\ pc = "write_iptc"
    /\ locals' = IF locals.write_iptc_flag
                 THEN [locals EXCEPT !.iptc = Append(@, locals.i)]
                 ELSE locals
    /\ pc' = IF locals.impl = "process_images" /\ locals.auto_upload
             THEN "upload_image" ELSE "rows.append"
    /\ UNCHANGED <<meta, smeta, call, analysis>>

\* result = platform_instance.upload_image(...); add_upload_record(...):
\* upload_image returns an UploadResult whatever happens, "Not logged in"
\* without a driver.
UploadImage ==
    /\ pc = "upload_image"
    /\ locals' = [locals EXCEPT
                     !.upload_history =
                         Append(@, [image_path |-> locals.i,
                                    success |->
                                        /\ locals.driver = "Driver"
                                        /\ locals.images[locals.i].upload
                                               = "success"])]
    /\ pc' = "rows.append"
    /\ UNCHANGED <<meta, smeta, call, analysis>>

\* rows.append({...}), the last statement of the try that changes state
AppendRow ==
    /\ pc = "rows.append"
    /\ locals' = [locals EXCEPT !.rows = Append(@, locals.i)]
    /\ pc' = "for"
    /\ UNCHANGED <<meta, smeta, call, analysis>>

\* Variant of the handler that lets the exception leave the function.
Except_Propagates ==
    /\ pc = "except"
    /\ locals' = [locals EXCEPT !.errors = Append(@, locals.i)]
    /\ pc' = "return"
    /\ UNCHANGED <<meta, smeta, call, analysis>>

\* except Exception as e: the error is written and the loop goes on
Except ==
    /\ pc = "except"
    /\ locals' = [locals EXCEPT !.errors = Append(@, locals.i)]
    /\ pc' = "for"
    /\ UNCHANGED <<meta, smeta, call, analysis>>

\* After the loop: if csv_path, the rows are exported;
\* process_folder_enhanced then reports the trends of a non-empty
\* metadata_list, process_images closes the driver of its platform
\* instance.
ExportCsv ==
    /\ pc = "export_csv"
    /\ locals' = [locals EXCEPT
                     !.exported = IF locals.csv_path
                                  THEN Append(@, locals.rows) ELSE @,
                     !.trends = /\ locals.analyze_trends
                                /\ locals.metadata_list # <<>>,
                     !.driver = IF locals.impl = "process_images"
                                   /\ locals.auto_upload
                                THEN "None" ELSE @]
    /\ pc' = "return"
    /\ UNCHANGED <<meta, smeta, call, analysis>>

NextBatch ==
    \/ NoImages
    \/ ForNext
    \/ ForImage
    \/ WriteIptc
    \/ UploadImage
    \/ AppendRow
    \/ Except
    \/ ExportCsv

SpecBatch == InitBatch /\ [][NextBatch]_vars

Returned == pc = "return"

\* The images of a list on which generation does not fail, in list order.
RECURSIVE NonFailing(_, _)
NonFailing(images, from) ==
    IF from > Len(images) THEN <<>>
    ELSE (IF images[from].generation = "raises" THEN <<>> ELSE <<from>>)
         \o NonFailing(images, from + 1)

\* C20: in each of the three batch loops, whatever the list of images and
\* whichever of them generation fails on, when the function returns every
\* image has been visited, in order, and the rows handed to the CSV export
\* (they are handed whenever a CSV path is given and there are images) are
\* exactly the images generation did not fail on, in processing order.
C20_FailureDoesNotStopBatch ==
    Returned =>
        /\ locals.visited = [k \in 1..Len(locals.images) |-> k]
        /\ locals.rows = NonFailing(locals.images, 1)
        /\ (locals.csv_path /\ locals.images # <<>>)
               => locals.exported = <<NonFailing(locals.images, 1)>>
        /\ \A e \in DOMAIN locals.exported :
               locals.exported[e] = NonFailing(locals.images, 1)

\* A batch in which generation failed on an image that was not the last,
\* succeeded on a later one, and the rows were exported.
C20_Witness ==
    /\ Returned
    /\ locals.exported # <<>>
    /\ \E k, l \in DOMAIN locals.images :
           /\ k < l
           /\ locals.images[k].generation = "raises"
           /\ locals.images[l].generation = "Meta"
           /\ k \in {locals.errors[e] : e \in DOMAIN locals.errors}

----------------------------------------------------------------------------
(* Language preferences of merged_keywords *)

RecognisedLangPrefs == {"en", "zh", "en,zh"}

\* A call record of the merge holds a result; a call that raised would
\* hold the exception in a field raised.
MergeRaised == "raised" \in DOMAIN call /\ call.raised # "none"

\* C21: merged_keywords, in stockmate_pro.py and in stockmate.py, called
\* with a language preference other than "en", "zh" and "en,zh" results in
\* an error, and never falls into one of the pool-selection branches.
C21_UnknownLangErrors ==
    ((IsPro \/ IsStockmate) /\ call.args[1] \notin RecognisedLangPrefs)
        => MergeRaised

----------------------------------------------------------------------------
(* Title and description of a generated Meta *)

Generated == pc \in {"_enhance_with_seo", "return"} /\ ~locals.ai.raised

\* C22: a Meta created by _generate_base_metadata from the AI answer keeps
\* the whole stripped title and description of the answer; they are not
\* shortened to the limits of the platform at creation.
C22_CreationKeepsFullText ==
    Generated =>
        /\ meta.title = strip(Get(locals.ai.data, "title", <<>>))
        /\ meta.description = strip(Get(locals.ai.data, "description", <<>>))

----------------------------------------------------------------------------
(* Specification of the trending-keyword selection: a list of primary      *)
(* keywords is given, and _get_relevant_trending_keywords is applied to    *)
(* it.                                                                     *)

MaxTrendKeywords == 3      \* longest list of primary keywords

TrendKeywordItems ==
    {<<"b","u","s","i","n","e","s","s"," ","m","e","e","t","i","n","g">>, <<"H","a","p","p","y"," ","F","a","m","i","l","y">>, <<"m","o","u","n","t","a","i","n">>, <<"g","r","e","e","n"," ","f","o","r","e","s","t">>,
     <<"e","c","o">>}

TrendKeywordLists ==
    UNION {[1..n -> TrendKeywordItems] : n \in 0..MaxTrendKeywords}

InitTrending ==
    \E keywords \in TrendKeywordLists :
        /\ locals = [keywords |-> keywords]
        /\ pc = "idle"
        /\ call = NoCall
        /\ meta = "None"
        /\ smeta = "None"
        /\ analysis = UnknownAnalysis

GetRelevantTrendingKeywords ==
    /\ call' = [impl |-> "_get_relevant_trending_keywords",
                args |-> <<locals.keywords, analysis>>,
                result |-> _get_relevant_trending_keywords(locals.keywords,
                                                           analysis),
                raised |-> "none"]
    /\ UNCHANGED <<meta, smeta, analysis, pc, locals>>

NextTrending == GetRelevantTrendingKeywords

SpecTrending == InitTrending /\ [][NextTrending]_vars

TrendingSelected == call.impl = "_get_relevant_trending_keywords"

\* The words of a term: its maximal runs of non-whitespace characters, as
\* <<first, last>> index pairs.
WordSpans(term) ==
    {span \in (DOMAIN term) \X (DOMAIN term) :
        /\ span[1] <= span[2]
        /\ \A i \in span[1]..span[2] : term[i] \notin Whitespace
        /\ span[1] = 1 \/ term[span[1] - 1] \in Whitespace
        /\ span[2] = Len(term) \/ term[span[2] + 1] \in Whitespace}

\* Some keyword contains, case ignored, a word of some term of the category.
CategoryRelevant(terms, keywords) ==
    \E k \in DOMAIN keywords, t \in DOMAIN terms :
        \E span \in WordSpans(terms[t]) :
            \E at \in DOMAIN keywords[k] :
                /\ at + (span[2] - span[1]) <= Len(keywords[k])
                /\ \A o \in 0..(span[2] - span[1]) :
                       LowerChar(keywords[k][at + o])
                           = LowerChar(terms[t][span[1] + o])

\* The first 3 terms of every relevant category from category c on, in
\* table order.
RECURSIVE FirstThrees(_, _)
FirstThrees(c, keywords) ==
    IF c > Len(TRENDING_KEYWORDS) THEN <<>>
    ELSE (IF CategoryRelevant(TRENDING_KEYWORDS[c], keywords)
          THEN SubSeq(TRENDING_KEYWORDS[c], 1, 3) ELSE <<>>)
         \o FirstThrees(c + 1, keywords)

\* C23: _get_relevant_trending_keywords returns at most 5 keywords, none
\* repeated: the first 5 of the first 3 terms of every category, in table
\* order, of which some primary keyword contains a word of some term; with
\* no primary keywords it returns the empty list.
C23_RelevantTrending ==
    TrendingSelected =>
        LET keywords == call.args[1]
            result == call.result
            all == FirstThrees(1, keywords)
        IN  /\ Len(result) <= 5
            /\ \A i, j \in DOMAIN result : result[i] = result[j] => i = j
            /\ result = [i \in 1..(IF Len(all) < 5 THEN Len(all) ELSE 5)
                            |-> all[i]]
            /\ keywords = <<>> => result = <<>>

\* Two categories or more were relevant, and the result was cut at 5.
C23_Witness ==
    /\ TrendingSelected
    /\ Len(FirstThrees(1, call.args[1])) > 5
    /\ Len(call.result) = 5

----------------------------------------------------------------------------
(* Length bounds of the merged keywords *)

\* The keys of the candidates that are within the bounds once stripped.
AcceptableKeys(m) ==
    {Key(PriorityConcat(m)[i]) :
        i \in {j \in DOMAIN PriorityConcat(m) :
                  Acceptable(strip(PriorityConcat(m)[j]))}}

\* C24: every keyword stockmate_pro merged_keywords returns is non-empty,
\* has no leading or trailing whitespace and a length between
\* MIN_KEYWORD_LENGTH and MAX_KEYWORD_LENGTH; the candidates outside the
\* bounds are dropped without counting towards max_keywords, so the result
\* is never shorter than both max_keywords and the number of distinct
\* candidates within the bounds.
C24_KeywordLengthBounds ==
    IsPro =>
        /\ \A k \in DOMAIN call.result :
               /\ call.result[k] # <<>>
               /\ call.result[k][1] \notin Whitespace
               /\ call.result[k][Len(call.result[k])] \notin Whitespace
               /\ Len(call.result[k]) >= MIN_KEYWORD_LENGTH
               /\ Len(call.result[k]) <= MAX_KEYWORD_LENGTH
        /\ \/ Len(call.result) >= call.args[2]
           \/ Len(call.result) >= Cardinality(AcceptableKeys(meta))

\* With max_keywords = 1, a candidate outside the bounds came first and the
\* keyword returned is a later candidate, stripped of its padding.
C24_Witness ==
    /\ IsPro
    /\ call.args[2] = 1
    /\ PriorityConcat(meta) # <<>>
    /\ ~Acceptable(strip(PriorityConcat(meta)[1]))
    /\ Len(call.result) = 1
    /\ \E i \in DOMAIN PriorityConcat(meta) :
           /\ i > 1
           /\ PriorityConcat(meta)[i] # call.result[1]
           /\ strip(PriorityConcat(meta)[i]) = call.result[1]

----------------------------------------------------------------------------
(* stockuploader/generator.py: generate_metadata, heuristic path.  A       *)
(* character outside ASCII is written as its code point, "U+672A".         *)

\* str.capitalize(): the first character upper-cased, the rest lower-cased
capitalize(t) ==
    IF t = <<>> THEN <<>>
    ELSE <<UpperChar(t[1])>> \o lower(SubSeq(t, 2, Len(t)))

\* sep.join(items)
RECURSIVE Join(_, _)
Join(sep, items) ==
    IF items = <<>> THEN <<>>
    ELSE IF Len(items) = 1 THEN items[1]
    ELSE items[1] \o sep \o Join(sep, Tail(items))

\* lang.startswith("en")
startswith_en(lang) == StartsWithAt(lang, 1, <<"e","n">>)

_build_title(tokens, lang) ==
    IF tokens = <<>>
    THEN (IF startswith_en(lang) THEN <<"U","n","t","i","t","l","e","d">> ELSE <<"U+672A","U+547D","U+540D">>)
    ELSE IF startswith_en(lang)
    THEN Join(<<" ">>, [i \in DOMAIN Take(tokens, 10) |-> capitalize(tokens[i])])
    ELSE Join(<<" ">>, Take(tokens, 10))

_build_description(tokens, colors, lang) ==
    LET core == IF tokens # <<>> THEN Join(<<","," ">>, Take(tokens, 8))
                ELSE IF startswith_en(lang) THEN <<"i","m","a","g","e">> ELSE <<"U+56FE","U+7247">>
        color_part == IF colors # <<>> THEN Join(<<","," ">>, colors) ELSE <<>>
    IN  IF startswith_en(lang)
        THEN (IF color_part # <<>>
              THEN <<"H","i","g","h","-","q","u","a","l","i","t","y"," ","s","t","o","c","k"," ","p","h","o","t","o"," ","f","e","a","t","u","r","i","n","g"," ">> \o core \o <<","," ","w","i","t","h"," ">>
                   \o color_part
                   \o <<" ","t","o","n","e","s","."," ","I","d","e","a","l"," ","f","o","r"," ","e","d","i","t","o","r","i","a","l"," ","a","n","d"," ","c","o","m","m","e","r","c","i","a","l"," ","u","s","e",".">>
              ELSE <<"H","i","g","h","-","q","u","a","l","i","t","y"," ","s","t","o","c","k"," ","p","h","o","t","o"," ","f","e","a","t","u","r","i","n","g"," ">> \o core
                   \o <<"."," ","I","d","e","a","l"," ","f","o","r"," ","e","d","i","t","o","r","i","a","l"," ","a","n","d"," ","c","o","m","m","e","r","c","i","a","l"," ","u","s","e",".">>)
        ELSE (IF color_part # <<>>
              THEN <<"U+9AD8","U+8D28","U+91CF","U+56FE","U+5E93","U+7167","U+7247","U+FF0C","U+4E3B","U+4F53","U+4E3A","U+FF1A">> \o core \o <<"U+FF0C","U+8272","U+8C03","U+5305","U+542B","U+FF1A">> \o color_part
                   \o <<"U+3002","U+9002","U+7528","U+4E8E","U+5546","U+4E1A","U+4E0E","U+7F16","U+8F91","U+7528","U+9014","U+3002">>
              ELSE <<"U+9AD8","U+8D28","U+91CF","U+56FE","U+5E93","U+7167","U+7247","U+FF0C","U+4E3B","U+4F53","U+4E3A","U+FF1A">> \o core
                   \o <<"U+3002","U+9002","U+7528","U+4E8E","U+5546","U+4E1A","U+4E0E","U+7F16","U+8F91","U+7528","U+9014","U+3002">>)

\* The loop of _limit_keywords, with its local final.
RECURSIVE LimitLoop(_, _, _)
LimitLoop(keywords, limit, final) ==
    IF keywords = <<>> THEN final
    ELSE LET kw_norm == lower(strip(Head(keywords)))
         IN  IF kw_norm = <<>> \/ \E i \in DOMAIN final : final[i] = kw_norm
             THEN LimitLoop(Tail(keywords), limit, final)
             ELSE IF Len(final) + 1 >= limit THEN Append(final, kw_norm)
             ELSE LimitLoop(Tail(keywords), limit, Append(final, kw_norm))

_limit_keywords(keywords, limit) == LimitLoop(keywords, limit, <<>>)

GENERIC_TAGS_EN ==
    <<<<"s","t","o","c","k"," ","p","h","o","t","o">>, <<"h","i","g","h"," ","r","e","s","o","l","u","t","i","o","n">>, <<"b","a","c","k","g","r","o","u","n","d">>, <<"n","a","t","u","r","e">>, <<"a","b","s","t","r","a","c","t">>>>

GENERIC_TAGS_OTHER == <<<<"U+56FE","U+5E93">>, <<"U+9AD8","U+5206","U+8FA8","U+7387">>, <<"U+80CC","U+666F">>, <<"U+81EA","U+7136">>, <<"U+62BD","U+8C61">>>>

\* The heuristic path of generate_metadata; colors is what
\* _dominant_colors returns for the image.
HeuristicMetadata(image_path, colors, lang, max_keywords) ==
    LET tokens == _tokenize_filename(image_path)
    IN  [filename |-> basename(image_path),
         title |-> _build_title(IF tokens # <<>> THEN tokens ELSE colors,
                                lang),
         description |->
             _build_description(IF tokens # <<>> THEN tokens ELSE colors,
                                colors, lang),
         keywords |->
             _limit_keywords(
                 tokens \o colors \o (IF startswith_en(lang)
                                      THEN GENERIC_TAGS_EN
                                      ELSE GENERIC_TAGS_OTHER),
                 max_keywords),
         language |-> lang,
         source_path |-> image_path]

\* What _generate_with_openai yields: it raises, returns None, or returns
\* the metadata parsed from the answer.
generate_metadata(image_path, lang, provider, max_keywords, colors, openai) ==
    IF provider = <<"o","p","e","n","a","i">> /\ openai.outcome = "md"
    THEN [filename |-> basename(image_path),
          title |-> openai.title,
          description |-> openai.description,
          keywords |-> _limit_keywords(openai.keywords, max_keywords),
          language |-> lang,
          source_path |-> image_path]
    ELSE HeuristicMetadata(image_path, colors, lang, max_keywords)

----------------------------------------------------------------------------
(* Specification of generate_metadata: a path, a language, a provider and  *)
(* a keyword limit are given, together with what the image and the AI      *)
(* service yield; generate_metadata is applied to them.                    *)

MaxColors == 2      \* longest list of dominant colors

GENERATE_MAX_KEYWORDS == 49

ColorNames == {<<"b","l","u","e">>, <<"w","h","i","t","e">>, <<"r","e","d">>}

ColorLists ==
    {colors \in UNION {[1..n -> ColorNames] : n \in 0..MaxColors} :
        \A i, j \in DOMAIN colors : colors[i] = colors[j] => i = j}

GeneratePaths ==
    {<<"I","M","G","_","2","0","2","3",".","j","p","g">>, <<"p","h","o","t","o","s","/","t","h","e","_","p","h","o","t","o",".","j","p","g">>, <<"s","u","n","s","e","t","_","b","e","a","c","h",".","j","p","g">>,
     <<"R","e","d","-","C","a","r",".","J","P","G">>}

GenerateLangs == {<<"e","n">>, <<"z","h">>, <<"e","n","-","U","S">>, <<"f","r">>}

OpenaiOutcomes ==
    { [outcome |-> "raises"],
      [outcome |-> "None"],
      [outcome |-> "md", title |-> <<"G","o","l","d","e","n"," ","h","o","u","r">>,
       description |-> <<"A"," ","b","e","a","c","h"," ","a","t"," ","s","u","n","s","e","t",".">>,
       keywords |-> <<<<"B","e","a","c","h">>, <<" ","b","e","a","c","h"," ">>, <<"s","u","n","s","e","t">>>>] }

InitGenerate ==
    \E image_path \in GeneratePaths, lang \in GenerateLangs,
       provider \in {<<"h","e","u","r","i","s","t","i","c">>, <<"o","p","e","n","a","i">>},
       max_keywords \in {2, GENERATE_MAX_KEYWORDS},
       colors \in ColorLists, openai \in OpenaiOutcomes :
        /\ locals = [image_path |-> image_path, lang |-> lang,
                     provider |-> provider, max_keywords |-> max_keywords,
                     colors |-> colors, openai |-> openai]
        /\ pc = "idle"
        /\ call = NoCall
        /\ meta = "None"
        /\ smeta = "None"
        /\ analysis = "None"

GenerateMetadata ==
    /\ call' = [impl |-> "generate_metadata",
                args |-> <<locals.image_path, locals.lang, locals.provider,
                           locals.max_keywords>>,
                result |-> generate_metadata(locals.image_path, locals.lang,
                                             locals.provider,
                                             locals.max_keywords,
                                             locals.colors, locals.openai),
                raised |-> "none"]
    /\ UNCHANGED <<meta, smeta, analysis, pc, locals>>

NextGenerate == GenerateMetadata

SpecGenerate == InitGenerate /\ [][NextGenerate]_vars

HeuristicPath ==
    /\ call.impl = "generate_metadata"
    /\ locals.provider = <<"h","e","u","r","i","s","t","i","c">> \/ locals.openai.outcome # "md"

\* C25: on the heuristic path of generate_metadata, when the tokenizer
\* yields no token for the filename, the title is the placeholder
\* ("Untitled" for a language starting with "en", the Chinese placeholder
\* otherwise), whatever the dominant colors of the image are.
C25_PlaceholderTitle ==
    (HeuristicPath /\ _tokenize_filename(call.args[1]) = <<>>) =>
        call.result.title = IF StartsWithAt(call.args[2], 1, <<"e","n">>)
                            THEN <<"U","n","t","i","t","l","e","d">> ELSE <<"U+672A","U+547D","U+540D">>

----------------------------------------------------------------------------
(* The placeholder of an image that cannot be decoded *)

MetaBuilt == pc \in {"_enhance_with_seo", "return"}

\* C26: for an image that cannot be decoded, the placeholder "unknown" of
\* the analysis is in no list merged_keywords returns for the Meta built
\* from it, by _generate_base_metadata or by _fallback_metadata.
C26_NoUnknownKeyword ==
    (MetaBuilt /\ ~locals.img.decodable) =>
        \A lang_pref \in RecognisedLangPrefs :
            \A k \in DOMAIN merged_keywords(meta, lang_pref,
                                            DEFAULT_MAX_KEYWORDS) :
                lower(merged_keywords(meta, lang_pref,
                                      DEFAULT_MAX_KEYWORDS)[k]) # <<"u","n","k","n","o","w","n">>

----------------------------------------------------------------------------
(* EnhancedStockMate.process_images from its first statement: the lookup   *)
(* of the platform configuration, the platform instance and the login come *)
(* before the list of images and the loop.  Whether the configuration and  *)
(* the platform are found, whether credentials are given and what login    *)
(* does are given with the call.                                           *)

\* login: it starts the driver and returns True; it starts the driver and
\* returns False after a failure in the form; or setup_driver itself fails
\* and login returns False without a driver.
LoginOutcomes == {"True", "False", "no driver"}

ProcessImagesInputs ==
    {inp \in [config_found : BOOLEAN, auto_upload : BOOLEAN,
              platform_found : BOOLEAN, credentials : BOOLEAN,
              login : LoginOutcomes, write_iptc_flag : BOOLEAN,
              csv_path : BOOLEAN] :
        /\ ~inp.config_found => ~inp.auto_upload /\ ~inp.write_iptc_flag
        /\ ~inp.auto_upload => inp.platform_found /\ ~inp.credentials
        /\ ~inp.platform_found => ~inp.credentials
        /\ ~inp.credentials => inp.login = "True"}

\* The driver the loop runs with, if it is reached.
DriverAfterLogin(inp) ==
    IF inp.auto_upload /\ inp.credentials /\ inp.login = "True"
    THEN "Driver" ELSE "None"

InitProcessImages ==
    /\ \E inp \in ProcessImagesInputs :
           \E images \in ImageLists(inp.auto_upload, DriverAfterLogin(inp)) :
               locals = BatchLocals("process_images", images,
                                    inp.write_iptc_flag, inp.csv_path, FALSE,
                                    inp.auto_upload, "None")
                        @@ [config_found |-> inp.config_found,
                            platform_found |-> inp.platform_found,
                            credentials |-> inp.credentials,
                            login |-> inp.login,
                            platform_instance |-> FALSE]
    /\ pc = "get_platform_config"
    /\ call = NoCall
    /\ meta = "None"
    /\ smeta = "None"
    /\ analysis = "None"

\* platform_config = self.config.get_platform_config(platform);
\* if not platform_config: return
ConfigLookup ==
    /\ pc = "get_platform_config"
    /\ pc' = IF locals.config_found THEN "get_platform" ELSE "return"
    /\ UNCHANGED <<meta, smeta, call, analysis, locals>>

\* if auto_upload: platform_instance = get_platform(...); return when there
\* is none; the login follows when username and password are given.
GetPlatform ==
    /\ pc = "get_platform"
    /\ IF ~locals.auto_upload
       THEN /\ pc' = "images"
            /\ UNCHANGED locals
       ELSE IF ~locals.platform_found
       THEN /\ pc' = "return"
            /\ UNCHANGED locals
       ELSE /\ locals' = [locals EXCEPT !.platform_instance = TRUE]
            /\ pc' = IF locals.credentials THEN "login" ELSE "images"
    /\ UNCHANGED <<meta, smeta, call, analysis>>

\* if not platform_instance.login(username, password): return.  login
\* calls setup_driver first, inside its try.
Login ==
    /\ pc = "login"
    /\ locals' = [locals EXCEPT
                     !.driver = IF locals.login = "no driver"
                                THEN "None" ELSE "Driver"]
    /\ pc' = IF locals.login = "True" THEN "images" ELSE "return"
    /\ UNCHANGED <<meta, smeta, call, analysis>>

NextProcessImages ==
    \/ ConfigLookup
    \/ GetPlatform
    \/ Login
    \/ NoImages
    \/ ForNext
    \/ ForImage
    \/ WriteIptc
    \/ UploadImage
    \/ AppendRow
    \/ Except
    \/ ExportCsv

SpecProcessImages == InitProcessImages /\ [][NextProcessImages]_vars

\* C27: when process_images returns after having created the platform
\* instance (failed login, no supported image, or the end of the loop), the
\* driver that was started has been closed: the driver is None.
C27_DriverClosedOnReturn ==
    (pc = "return" /\ locals.platform_instance) => locals.driver = "None"

----------------------------------------------------------------------------
(* platform_apis.py: validate_metadata and upload_image of ShutterstockAPI *)
(* and AdobeStockAPI.  metadata is a dict given as a record of the keys it *)
(* holds; an error message is the pair of its fixed text and what is       *)
(* formatted into it.  What the file system and the HTTP service answer    *)
(* is given with the call; posted lists the requests the call has sent.    *)

\* not metadata.get(key): the key is missing or its value is empty
Falsy(metadata, key) == Get(metadata, key, <<>>) = <<>>

\* PlatformAPI.validate_metadata: the list of errors
base_validate_metadata(metadata) ==
    (IF Falsy(metadata, "title") THEN <<"Title is required">> ELSE <<>>)
    \o (IF Falsy(metadata, "description")
        THEN <<"Description is required">> ELSE <<>>)
    \o (IF Falsy(metadata, "keywords")
        THEN <<"Keywords are required">> ELSE <<>>)

\* for word in forbidden: if word in title_lower or word in desc_lower
RECURSIVE ForbiddenLoop(_, _)
ForbiddenLoop(forbidden, metadata) ==
    IF forbidden = <<>> THEN <<>>
    ELSE (IF \/ Contains(Head(forbidden),
                         lower(Get(metadata, "title", <<>>)))
             \/ Contains(Head(forbidden),
                         lower(Get(metadata, "description", <<>>)))
          THEN << <<"Forbidden word", Head(forbidden)>> >> ELSE <<>>)
         \o ForbiddenLoop(Tail(forbidden), metadata)

SHUTTERSTOCK_FORBIDDEN ==
    <<<<"s","h","u","t","t","e","r","s","t","o","c","k">>, <<"w","a","t","e","r","m","a","r","k">>, <<"c","o","p","y","r","i","g","h","t">>, <<"r","o","y","a","l","t","y">>>>

ADOBE_FORBIDDEN == <<<<"a","d","o","b","e">>, <<"s","t","o","c","k">>, <<"w","a","t","e","r","m","a","r","k">>>>

\* Variant that returns the verdict of the base class with the full list.
Shutterstock_validate_metadata_BaseVerdict(metadata) ==
    LET errors ==
            base_validate_metadata(metadata)
            \o (IF Len(Get(metadata, "title", <<>>)) > 200
                THEN <<"Title must be 200 characters or less">> ELSE <<>>)
            \o (IF Len(Get(metadata, "description", <<>>)) > 1000
                THEN <<"Description must be 1000 characters or less">>
                ELSE <<>>)
            \o (IF Len(Get(metadata, "keywords", <<>>)) > 50
                THEN <<"Maximum 50 keywords allowed">> ELSE <<>>)
            \o ForbiddenLoop(SHUTTERSTOCK_FORBIDDEN, metadata)
    IN  [is_valid |-> base_validate_metadata(metadata) = <<>>,
         errors |-> errors]

\* ShutterstockAPI.validate_metadata
Shutterstock_validate_metadata(metadata) ==
    LET errors ==
            base_validate_metadata(metadata)
            \o (IF Len(Get(metadata, "title", <<>>)) > 200
                THEN <<"Title must be 200 characters or less">> ELSE <<>>)
            \o (IF Len(Get(metadata, "description", <<>>)) > 1000
                THEN <<"Description must be 1000 characters or less">>
                ELSE <<>>)
            \o (IF Len(Get(metadata, "keywords", <<>>)) > 50
                THEN <<"Maximum 50 keywords allowed">> ELSE <<>>)
            \o ForbiddenLoop(SHUTTERSTOCK_FORBIDDEN, metadata)
    IN  [is_valid |-> Len(errors) = 0, errors |-> errors]

\* AdobeStockAPI.validate_metadata
Adobe_validate_metadata(metadata) ==
    LET errors ==
            base_validate_metadata(metadata)
            \o (IF Len(Get(metadata, "keywords", <<>>)) > 49
                THEN <<"Maximum 49 keywords allowed for Adobe Stock">>
                ELSE <<>>)
            \o (IF Len(Get(metadata, "keywords", <<>>)) < 7
                THEN <<"Minimum 7 keywords required for Adobe Stock">>
                ELSE <<>>)
            \o ForbiddenLoop(ADOBE_FORBIDDEN, metadata)
    IN  [is_valid |-> Len(errors) = 0, errors |-> errors]

UploadFailure(platform, error_message, posted) ==
    [success |-> FALSE, platform |-> platform, upload_id |-> "None",
     error_message |-> error_message, posted |-> posted]

UploadSuccess(platform, posted) ==
    [success |-> TRUE, platform |-> platform, upload_id |-> "id",
     error_message |-> <<>>, posted |-> posted]

\* ShutterstockAPI.upload_image: validation, the read of the file, one POST
Shutterstock_upload_image(metadata, env) ==
    LET v == Shutterstock_validate_metadata(metadata)
    IN  IF ~v.is_valid
        THEN UploadFailure("shutterstock", <<"Validation errors", v.errors>>,
                           <<>>)
        ELSE IF ~env.file_readable
        THEN UploadFailure("shutterstock", <<"exception">>, <<>>)
        ELSE IF env.response = "raises"
        THEN UploadFailure("shutterstock", <<"exception">>,
                           <<"/submissions">>)
        ELSE IF env.response = "201"
        THEN UploadSuccess("shutterstock", <<"/submissions">>)
        ELSE UploadFailure("shutterstock", <<"HTTP", env.response>>,
                           <<"/submissions">>)

\* AdobeStockAPI.upload_image: validation, the POST that creates the
\* submission, the read of the file, the POST of the content
Adobe_upload_image(metadata, env) ==
    LET v == Adobe_validate_metadata(metadata)
    IN  IF ~v.is_valid
        THEN UploadFailure("adobe_stock", <<"Validation errors", v.errors>>,
                           <<>>)
        ELSE IF env.response = "raises"
        THEN UploadFailure("adobe_stock", <<"exception">>,
                           <<"/submissions">>)
        ELSE IF env.response # "201"
        THEN UploadFailure("adobe_stock",
                           <<"Failed to create submission", env.response>>,
                           <<"/submissions">>)
        ELSE IF ~env.file_readable
        THEN UploadFailure("adobe_stock", <<"exception">>,
                           <<"/submissions">>)
        ELSE IF env.upload_response = "raises"
        THEN UploadFailure("adobe_stock", <<"exception">>,
                           <<"/submissions", "/submissions/id/content">>)
        ELSE IF env.upload_response = "201"
        THEN UploadSuccess("adobe_stock",
                           <<"/submissions", "/submissions/id/content">>)
        ELSE UploadFailure("adobe_stock",
                           <<"Upload failed", env.upload_response>>,
                           <<"/submissions", "/submissions/id/content">>)

ApiClasses == {"ShutterstockAPI", "AdobeStockAPI"}

\* A value of each key that upload_image may be called with; the empty
\* set of values is the key missing from the dict.
ApiTitles ==
    {{}, {<<>>}, {<<"S","u","n","s","e","t">>}, {Rep("x", 201)}, {<<"N","o"," ","W","a","t","e","r","m","a","r","k">>},
     {<<"A","d","o","b","e"," ","s","k","y">>}}

ApiDescriptions ==
    {{}, {<<>>}, {<<"A"," ","p","h","o","t","o">>}, {Rep("y", 1001)}, {<<"r","o","y","a","l","t","y"," ","f","r","e","e">>}}

ApiKeywords == {{}} \cup {{Filler("k", n)} : n \in {0, 6, 7, 49, 50, 51}}

MetadataDict(title, description, keywords) ==
    LET given == [title |-> title, description |-> description,
                  keywords |-> keywords]
    IN  [key \in {k \in DOMAIN given : given[k] # {}} |->
            CHOOSE v \in given[key] : TRUE]

HttpAnswers == {"201", "400", "raises"}

\* What the file system and the service do during one call; the second
\* request exists for Adobe Stock only.
ApiEnvs(api) ==
    [file_readable : BOOLEAN,
     response : HttpAnswers,
     upload_response : IF api = "AdobeStockAPI" THEN HttpAnswers
                       ELSE {"201"}]

InitUploadApi ==
    /\ \E api \in ApiClasses, title \in ApiTitles,
          description \in ApiDescriptions, keywords \in ApiKeywords :
           \E env \in ApiEnvs(api) :
               locals = [api |-> api,
                         metadata |-> MetadataDict(title, description,
                                                   keywords),
                         env |-> env]
    /\ pc = "upload_image"
    /\ call = NoCall
    /\ meta = "None"
    /\ smeta = "None"
    /\ analysis = "None"

\* result = api.upload_image(image_path, metadata)
ApiUploadImage ==
    /\ pc = "upload_image"
    /\ "api" \in DOMAIN locals
    /\ locals' = [result |->
                     IF locals.api = "ShutterstockAPI"
                     THEN Shutterstock_upload_image(locals.metadata,
                                                    locals.env)
                     ELSE Adobe_upload_image(locals.metadata, locals.env)]
                 @@ locals
    /\ pc' = "return"
    /\ UNCHANGED <<meta, smeta, call, analysis>>

NextUploadApi == ApiUploadImage

SpecUploadApi == InitUploadApi /\ [][NextUploadApi]_vars

ApiReturned == pc = "return" /\ "result" \in DOMAIN locals

\* The defects of a metadata dict, read off the limits of each platform.
MissingKeys(m) ==
    {k \in {"title", "description", "keywords"} :
        k \notin DOMAIN m \/ m[k] = <<>>}

TextOf(m, k) == IF k \in DOMAIN m THEN m[k] ELSE <<>>

HasForbidden(m, words) ==
    \E w \in words :
        \/ Contains(w, lower(TextOf(m, "title")))
        \/ Contains(w, lower(TextOf(m, "description")))

RejectedMetadata(api, m) ==
    \/ MissingKeys(m) # {}
    \/ IF api = "ShutterstockAPI"
       THEN \/ Len(TextOf(m, "title")) > 200
            \/ Len(TextOf(m, "description")) > 1000
            \/ Len(TextOf(m, "keywords")) > 50
            \/ HasForbidden(m, {<<"s","h","u","t","t","e","r","s","t","o","c","k">>, <<"w","a","t","e","r","m","a","r","k">>, <<"c","o","p","y","r","i","g","h","t">>,
                                <<"r","o","y","a","l","t","y">>})
       ELSE \/ Len(TextOf(m, "keywords")) > 49
            \/ Len(TextOf(m, "keywords")) < 7
            \/ HasForbidden(m, {<<"a","d","o","b","e">>, <<"s","t","o","c","k">>, <<"w","a","t","e","r","m","a","r","k">>})

\* C28: when upload_image of ShutterstockAPI or AdobeStockAPI is called
\* with metadata that validate_metadata finds an error in (a missing or
\* empty title, description or keyword list, a title, description or
\* keyword list over the limit, fewer than 7 keywords for Adobe Stock, a
\* forbidden word), the result has success False, its error message
\* carries the non-empty list of validation errors, and no request has
\* been posted.
C28_RejectedMetadataNotPosted ==
    (ApiReturned /\ RejectedMetadata(locals.api, locals.metadata)) =>
        /\ locals.result.success = FALSE
        /\ locals.result.error_message[1] = "Validation errors"
        /\ locals.result.error_message[2] # <<>>
        /\ locals.result.posted = <<>>

\* A call whose metadata is complete but over a limit or with a forbidden
\* word, made when the file is readable and the service would accept the
\* upload, that returned without posting.
C28_Witness ==
    /\ ApiReturned
    /\ MissingKeys(locals.metadata) = {}
    /\ RejectedMetadata(locals.api, locals.metadata)
    /\ locals.env.file_readable
    /\ locals.env.response = "201"
    /\ locals.env.upload_response = "201"
    /\ locals.result.posted = <<>>
    /\ ~locals.result.success

----------------------------------------------------------------------------
(* EnhancedStockMate: the upload history and its statistics.  A record of  *)
(* the history is given by its platform, image path and success (its       *)
(* timestamp, message, file id and url are written and never read);        *)
(* history_file is the list the file on disk holds.  last is the last      *)
(* call of get_upload_stats or show_stats and what it returned.            *)

MaxHistory == 3     \* longest upload history

UploadRecords ==
    [platform : {"shutterstock"}, image_path : {"a.jpg", "b.jpg"},
     success : BOOLEAN]

\* sum(1 for record in self.upload_history if record.get("success", False))
RECURSIVE Successful(_)
Successful(history) ==
    IF history = <<>> THEN 0
    ELSE (IF Get(Head(history), "success", FALSE) THEN 1 ELSE 0)
         + Successful(Tail(history))

\* get_upload_stats: the dict it returns; success_rate is the quotient
\* successful / total * 100, kept as numerator and denominator.
get_upload_stats(upload_history) ==
    IF upload_history = <<>>
    THEN [total_uploads |-> 0, successful_uploads |-> 0,
          failed_uploads |-> 0]
    ELSE LET total == Len(upload_history)
             successful == Successful(upload_history)
             failed == total - successful
         IN  [total_uploads |-> total,
              successful_uploads |-> successful,
              failed_uploads |-> failed,
              success_rate |-> IF total > 0
                               THEN <<successful * 100, total>>
                               ELSE <<0, 1>>]

\* The keys show_stats reads from the dict, in the order of its prints.
SHOWN_KEYS ==
    <<"total_uploads", "successful_uploads", "failed_uploads",
      "success_rate">>

\* show_stats: the lines printed after the heading, until a key is missing
RECURSIVE ShowLoop(_, _)
ShowLoop(stats, keys) ==
    IF keys = <<>> THEN [raised |-> "none", printed |-> <<>>]
    ELSE IF Head(keys) \notin DOMAIN stats
    THEN [raised |-> "KeyError", printed |-> <<>>]
    ELSE LET rest == ShowLoop(stats, Tail(keys))
         IN  [raised |-> rest.raised,
              printed |-> <<Head(keys)>> \o rest.printed]

\* __init__ and load_upload_history: the history is the list the file
\* holds, or empty when there is no file or it cannot be read.
InitStats ==
    /\ \E n \in 0..1 : \E history \in [1..n -> UploadRecords] :
           locals = [upload_history |-> history,
                     history_file |-> history,
                     last |-> [op |-> "none"]]
    /\ pc = "idle"
    /\ call = NoCall
    /\ meta = "None"
    /\ smeta = "None"
    /\ analysis = "None"

\* add_upload_record(platform, image_path, result): the record is appended
\* and save_upload_history writes the list, or logs a warning when the
\* file cannot be written.
AddUploadRecord ==
    /\ pc = "idle"
    /\ "upload_history" \in DOMAIN locals
    /\ Len(locals.upload_history) < MaxHistory
    /\ \E record \in UploadRecords, writable \in BOOLEAN :
           LET history == Append(locals.upload_history, record)
           IN  locals' = [locals EXCEPT
                             !.upload_history = history,
                             !.history_file = IF writable THEN history
                                              ELSE @]
    /\ UNCHANGED <<meta, smeta, call, analysis, pc>>

\* stats = get_upload_stats()
GetUploadStats ==
    /\ pc = "idle"
    /\ "upload_history" \in DOMAIN locals
    /\ locals' = [locals EXCEPT
                     !.last = [op |-> "get_upload_stats",
                               history |-> locals.upload_history,
                               stats |->
                                   get_upload_stats(locals.upload_history)]]
    /\ UNCHANGED <<meta, smeta, call, analysis, pc>>

\* show_stats()
ShowStats ==
    /\ pc = "idle"
    /\ "upload_history" \in DOMAIN locals
    /\ LET stats == get_upload_stats(locals.upload_history)
           shown == ShowLoop(stats, SHOWN_KEYS)
       IN  locals' = [locals EXCEPT
                         !.last = [op |-> "show_stats",
                                   history |-> locals.upload_history,
                                   stats |-> stats,
                                   raised |-> shown.raised,
                                   printed |-> shown.printed]]
    /\ UNCHANGED <<meta, smeta, call, analysis, pc>>

NextStats ==
    \/ AddUploadRecord
    \/ GetUploadStats
    \/ ShowStats

SpecStats == InitStats /\ [][NextStats]_vars

\* C29: whatever the upload history, the empty one included, the dict of
\* get_upload_stats has the keys total_uploads, successful_uploads,
\* failed_uploads and success_rate, total_uploads is the number of
\* records and equals successful_uploads + failed_uploads, and show_stats
\* raises nothing.
C29_StatsComplete ==
    (pc = "idle" /\ "last" \in DOMAIN locals /\ locals.last.op # "none") =>
        /\ DOMAIN locals.last.stats =
               {"total_uploads", "successful_uploads", "failed_uploads",
                "success_rate"}
        /\ locals.last.stats.total_uploads = Len(locals.last.history)
        /\ locals.last.stats.total_uploads =
               locals.last.stats.successful_uploads
               + locals.last.stats.failed_uploads
        /\ locals.last.op = "show_stats" => locals.last.raised = "none"

----------------------------------------------------------------------------
(* gui.py: StockMateGUI.process_images and _process_images_thread.  The    *)
(* main loop of Tk runs the command of the process button when it is       *)
(* clicked in state "normal" and the callbacks given to root.after, in     *)
(* the order they were given; a background thread goes through the         *)
(* statements of _process_images_thread and is alive until it has left     *)
(* the function.                                                           *)

MaxRuns == 2        \* most runs started

\* Variant that starts the thread and leaves the button as it is.
ProcessImages_ButtonLeftNormal ==
    /\ pc = "mainloop"
    /\ locals.button = "normal"
    /\ \E input_dir, platform \in BOOLEAN :
           IF ~input_dir \/ ~platform
           THEN locals' = [locals EXCEPT !.dialog = "showerror"]
           ELSE /\ Len(locals.threads) < MaxRuns
                /\ locals' = [locals EXCEPT
                                 !.threads =
                                     Append(@, [at |-> "start",
                                                outcome |-> "none"])]
    /\ UNCHANGED <<meta, smeta, call, analysis, pc>>

\* StockMateGUI.__init__: the button is created in state "normal", no
\* thread has been started and no callback is waiting.
InitGui ==
    /\ locals = [button |-> "normal", threads |-> <<>>, after |-> <<>>,
                 dialog |-> "none"]
    /\ pc = "mainloop"
    /\ call = NoCall
    /\ meta = "None"
    /\ smeta = "None"
    /\ analysis = "None"

\* process_images, the command of the process button: without an input
\* directory or a platform an error is shown; else the button is disabled
\* and the thread is started.
ProcessImages ==
    /\ pc = "mainloop"
    /\ locals.button = "normal"
    /\ \E input_dir, platform \in BOOLEAN :
           IF ~input_dir \/ ~platform
           THEN locals' = [locals EXCEPT !.dialog = "showerror"]
           ELSE /\ Len(locals.threads) < MaxRuns
                /\ locals' = [locals EXCEPT
                                 !.button = "disabled",
                                 !.threads =
                                     Append(@, [at |-> "start",
                                                outcome |-> "none"])]
    /\ UNCHANGED <<meta, smeta, call, analysis, pc>>

\* The main loop runs the oldest callback given to root.after.
MainLoopCallback ==
    /\ pc = "mainloop"
    /\ locals.after # <<>>
    /\ locals' = [locals EXCEPT
                     !.after = Tail(@),
                     !.button = IF Head(locals.after) = "normal"
                                THEN "normal" ELSE @,
                     !.dialog = IF Head(locals.after) = "normal"
                                THEN @ ELSE Head(locals.after)]
    /\ UNCHANGED <<meta, smeta, call, analysis, pc>>

\* The try block up to the end of stockmate.process_images, which returns
\* or raises (reading the parameters may raise as well).
ThreadProcessImages(t) ==
    /\ locals.threads[t].at = "start"
    /\ \E outcome \in {"returned", "raised"} :
           locals' = [locals EXCEPT
                         !.threads[t] =
                             [at |-> IF outcome = "returned"
                                     THEN "showinfo" ELSE "except",
                              outcome |-> outcome]]
    /\ UNCHANGED <<meta, smeta, call, analysis, pc>>

\* self.root.after(0, lambda: messagebox.showinfo(...)), the end of try
ThreadShowInfo(t) ==
    /\ locals.threads[t].at = "showinfo"
    /\ locals' = [locals EXCEPT !.after = Append(@, "showinfo"),
                                !.threads[t].at = "finally"]
    /\ UNCHANGED <<meta, smeta, call, analysis, pc>>

\* except Exception as e: self.root.after(0, lambda: showerror(...))
ThreadExcept(t) ==
    /\ locals.threads[t].at = "except"
    /\ locals' = [locals EXCEPT !.after = Append(@, "showerror"),
                                !.threads[t].at = "finally"]
    /\ UNCHANGED <<meta, smeta, call, analysis, pc>>

\* finally: self.root.after(0, lambda: process_button.config("normal"))
ThreadFinally(t) ==
    /\ locals.threads[t].at = "finally"
    /\ locals' = [locals EXCEPT !.after = Append(@, "normal"),
                                !.threads[t].at = "return"]
    /\ UNCHANGED <<meta, smeta, call, analysis, pc>>

\* The function returns and the thread ends.
ThreadReturn(t) ==
    /\ locals.threads[t].at = "return"
    /\ locals' = [locals EXCEPT !.threads[t].at = "finished"]
    /\ UNCHANGED <<meta, smeta, call, analysis, pc>>

ThreadStep ==
    /\ pc = "mainloop"
    /\ "threads" \in DOMAIN locals
    /\ \E t \in DOMAIN locals.threads :
           \/ ThreadProcessImages(t)
           \/ ThreadShowInfo(t)
           \/ ThreadExcept(t)
           \/ ThreadFinally(t)
           \/ ThreadReturn(t)

NextGui ==
    \/ ProcessImages
    \/ MainLoopCallback
    \/ ThreadStep

SpecGui == InitGui /\ [][NextGui]_vars

\* A started thread is scheduled until it ends, and the main loop keeps
\* running the callbacks it was given.
SpecGuiFair ==
    SpecGui /\ WF_vars(ThreadStep) /\ WF_vars(MainLoopCallback)

\* The threads that are alive, and those that have not yet given the
\* callback of their finally clause to the main loop.
Alive == {t \in DOMAIN locals.threads : locals.threads[t].at # "finished"}

BeforeReenable ==
    {t \in DOMAIN locals.threads :
        locals.threads[t].at \notin {"return", "finished"}}

\* C30 as stated: at most one thread started by process_images is alive at
\* any time, and the button is disabled while such a thread is alive.
C30_OneThreadAlive ==
    /\ Cardinality(Alive) <= 1
    /\ Alive # {} => locals.button = "disabled"

\* C30: at most one thread started by process_images is at a statement
\* before the end of its finally clause at any time, the process button is
\* disabled from the start of a run until the callback given by that
\* finally clause has run, and a disabled button is eventually set to
\* normal again, whether process_images returned or raised.
C30_OneRunAtATime ==
    /\ [](Cardinality(BeforeReenable) <= 1)
    /\ [](BeforeReenable # {} => locals.button = "disabled")
    /\ (locals.button = "disabled") ~> (locals.button = "normal")

\* After a run in which process_images raised and one in which it
\* returned, both threads have ended and the button is normal again.
C30_Witness ==
    /\ locals.button = "normal"
    /\ \E s, t \in DOMAIN locals.threads :
           /\ locals.threads[s] = [at |-> "finished", outcome |-> "raised"]
           /\ locals.threads[t] = [at |-> "finished", outcome |-> "returned"]

====
